---- MODULE Spec2Model ----
(***************************************************************************)
(* The pipeline engine of src/pipeline (base.py, runner.py): a fixed list  *)
(* of nodes with declared dependencies is validated and ordered by         *)
(* Pipeline._resolve_order, compiled by Pipeline._build_graph into a       *)
(* langgraph StateGraph (plain edges dependency -> dependent, conditional  *)
(* edges keyed by route label) and run by graph.ainvoke.                   *)
(*                                                                         *)
(* The graph runtime runs in supersteps: the nodes triggered by the edges  *)
(* that fired in the previous superstep run concurrently, and a node with  *)
(* several incoming edges declared one by one (graph.add_edge(dep, node))  *)
(* is triggered by each of them separately.                                *)
(*                                                                         *)
(* A dict is a function whose DOMAIN is its key set.  depends_on is kept   *)
(* as the set of its entries: the code only iterates it and tests          *)
(* membership, and a repeated entry adds the same edge and the same        *)
(* in-degree twice.                                                        *)
(***************************************************************************)
EXTENDS Integers, Sequences, FiniteSets, TLC

\* Longest node list handed to Pipeline(nodes=[...]).
MaxNodes == 3

\* Node names, in list order (and in alphabetical order), and the label
\* under which a conditional node's route_map lists each of them.
NameOf == <<"A", "B", "C", "D", "E">>
LabelOf == <<"a", "b", "c", "d", "e">>

\* Identities that name no node of any list.
GhostNames == {"M", "Z"}

\* The two spellings of the terminal sentinel that _normalize_route_map
\* maps to langgraph's END, and the label listing it.
Sentinels == {"END", "__end__"}
END == "__end__"
StopLabel == "stop"
GhostLabel == "m"

\* Every string sorted() can be asked to order, in that order.
Alphabet == NameOf \o <<"M", "Z">>

NamesUpTo(n) == {NameOf[i] : i \in 1..n}
NodeNames == NamesUpTo(MaxNodes)
Labels == {LabelOf[i] : i \in 1..MaxNodes} \cup {StopLabel, GhostLabel}

EmptyMap == [k \in {} |-> k]

\* class Node / class ConditionalNode
Node(nm, deps) ==
    [name |-> nm, depends_on |-> deps, conditional |-> FALSE, route_map |-> EmptyMap]
ConditionalNode(nm, deps, rm) ==
    [name |-> nm, depends_on |-> deps, conditional |-> TRUE, route_map |-> rm]

Range(f) == {f[k] : k \in DOMAIN f}

\* sorted(S) for a set of strings
Sorted(S) == SelectSeq(Alphabet, LAMBDA x : x \in S)

----------------------------------------------------------------------------
\* Pipeline._resolve_order

\* nodes_by_name = {node.name: node for node in self.nodes}: the keys, and
\* for each key the last node of that name.
NamesOf(ns) == {ns[i].name : i \in DOMAIN ns}
NodeByName(ns, nm) ==
    ns[CHOOSE i \in DOMAIN ns : ns[i].name = nm /\ \A j \in DOMAIN ns : ns[j].name = nm => j <= i]

\* a dict's keys keep the order of their first insertion
KeyOrder(ns) ==
    LET first(i) == \A j \in DOMAIN ns : j < i => ns[j].name # ns[i].name
        idx == SelectSeq([i \in DOMAIN ns |-> i], first)
    IN  [k \in DOMAIN idx |-> ns[idx[k]].name]

\* HasDuplicate that only sees a name repeated by the next node
HasAdjacentDuplicate(ns) == \E i \in DOMAIN ns : i + 1 \in DOMAIN ns /\ ns[i].name = ns[i + 1].name

HasDuplicate(ns) == Cardinality(NamesOf(ns)) # Len(ns)

\* _missing_dependencies that stops at the first missing name
MissingFirstOnly(ns) ==
    LET all == UNION {ns[i].depends_on \ NamesOf(ns) : i \in DOMAIN ns}
    IN  IF all = {} THEN {} ELSE {Sorted(all)[1]}

\* _missing_dependencies
MissingDependencies(ns) ==
    UNION {NodeByName(ns, nm).depends_on \ NamesOf(ns) : nm \in NamesOf(ns)}

\* indegree that leaves out the dependencies on conditional nodes
InDegreePlainOnly(ns) ==
    [nm \in NamesOf(ns) |->
        Cardinality({dep \in NodeByName(ns, nm).depends_on :
                        ~\E i \in DOMAIN ns : ns[i].name = dep /\ ns[i].conditional})]

\* indegree and dependents as built by the loop over self.nodes
InDegree(ns) == [nm \in NamesOf(ns) |-> Cardinality(NodeByName(ns, nm).depends_on)]
DependentsOf(ns, dep) ==
    LET names == [i \in DOMAIN ns |-> ns[i].name]
    IN  SelectSeq(names, LAMBDA nm : dep \in NodeByName(ns, nm).depends_on)

\* Release with the test off by one: a child is enqueued when one of its
\* dependencies is still to be emitted.
RECURSIVE ReleaseOffByOne(_, _, _)
ReleaseOffByOne(children, indegree, queue) ==
    IF children = <<>> THEN [indegree |-> indegree, queue |-> queue]
    ELSE LET child == Head(children)
             deg == indegree[child] - 1
             ind == [indegree EXCEPT ![child] = deg]
         IN  ReleaseOffByOne(Tail(children), ind,
                             IF deg = 1 THEN Append(queue, child) ELSE queue)

\* for child in dependents[name]: indegree[child] -= 1; enqueue at zero
RECURSIVE Release(_, _, _)
Release(children, indegree, queue) ==
    IF children = <<>> THEN [indegree |-> indegree, queue |-> queue]
    ELSE LET child == Head(children)
             deg == indegree[child] - 1
             ind == [indegree EXCEPT ![child] = deg]
         IN  Release(Tail(children), ind,
                     IF deg = 0 THEN Append(queue, child) ELSE queue)

\* the loop taking the newest name of the queue: name = queue.pop()
RECURSIVE KahnLifo(_, _, _, _)
KahnLifo(ns, queue, indegree, out) ==
    IF queue = <<>> THEN out
    ELSE LET name == queue[Len(queue)]
             r == Release(DependentsOf(ns, name), indegree, SubSeq(queue, 1, Len(queue) - 1))
         IN  KahnLifo(ns, r.queue, r.indegree, Append(out, name))

\* while queue: name = queue.pop(0); order_names.append(name); ...
RECURSIVE Kahn(_, _, _, _)
Kahn(ns, queue, indegree, out) ==
    IF queue = <<>> THEN out
    ELSE LET name == Head(queue)
             r == Release(DependentsOf(ns, name), indegree, Tail(queue))
         IN  Kahn(ns, r.queue, r.indegree, Append(out, name))

OrderNames(ns) ==
    LET indegree == InDegree(ns)
    IN  Kahn(ns, SelectSeq(KeyOrder(ns), LAMBDA nm : indegree[nm] = 0), indegree, <<>>)

\* cycle_nodes = [name for name in nodes_by_name if name not in order_names]
InSeq(x, s) == \E k \in DOMAIN s : s[k] = x

\* cycle_nodes = list(nodes_by_name): every node named, emitted or not
CycleNodesAll(ns, order_names) == KeyOrder(ns)

CycleNodes(ns, order_names) == SelectSeq(KeyOrder(ns), LAMBDA nm : ~InSeq(nm, order_names))

\* _resolve_order without the comparison of len(order_names) with
\* len(self.nodes)
ResolveOrderUnchecked(ns) ==
    IF HasDuplicate(ns)
    THEN [error |-> "DuplicateNode", names |-> <<>>, order |-> <<>>]
    ELSE IF MissingDependencies(ns) # {}
    THEN [error |-> "MissingDependency", names |-> Sorted(MissingDependencies(ns)),
          order |-> <<>>]
    ELSE [error |-> "none", names |-> <<>>, order |-> OrderNames(ns)]

\* The outcome of _resolve_order: the raised error, the names its message
\* lists, and the order returned.
ResolveOrder(ns) ==
    IF HasDuplicate(ns)
    THEN [error |-> "DuplicateNode", names |-> <<>>, order |-> <<>>]
    ELSE IF MissingDependencies(ns) # {}
    THEN [error |-> "MissingDependency", names |-> Sorted(MissingDependencies(ns)),
          order |-> <<>>]
    ELSE LET order_names == OrderNames(ns)
         IN  IF Len(order_names) # Len(ns)
             THEN [error |-> "DependencyCycle", names |-> CycleNodes(ns, order_names),
                   order |-> <<>>]
             ELSE [error |-> "none", names |-> <<>>, order |-> order_names]

----------------------------------------------------------------------------
\* Pipeline._build_graph

IsConditional(ns, nm) == nm \in NamesOf(ns) /\ NodeByName(ns, nm).conditional
ConditionalNames(ns) == {nm \in NamesOf(ns) : IsConditional(ns, nm)}
RouteMap(ns, nm) == NodeByName(ns, nm).route_map

\* the first loop looking the node up in the targets of every conditional
\* node instead of those of the dependency at hand
OrphanedPairsAnyMap(ns) ==
    {<<nm, dep>> \in NamesOf(ns) \X ConditionalNames(ns) :
        /\ dep \in NodeByName(ns, nm).depends_on
        /\ nm \notin UNION {Range(RouteMap(ns, c)) : c \in ConditionalNames(ns)}}

\* _validate_conditional_dependencies, first loop: some node depends on a
\* conditional node whose route_map values do not hold the node's name.
OrphanedPairs(ns) ==
    {<<nm, dep>> \in NamesOf(ns) \X ConditionalNames(ns) :
        /\ dep \in NodeByName(ns, nm).depends_on
        /\ nm \notin Range(RouteMap(ns, dep))}

\* the second loop testing that the target declares dependencies at all
\* instead of this one
UnlistedPairsNoDependencies(ns) ==
    {<<c, t>> \in ConditionalNames(ns) \X NamesOf(ns) :
        /\ t \in Range(RouteMap(ns, c))
        /\ t \notin Sentinels
        /\ NodeByName(ns, t).depends_on = {}}

\* _validate_conditional_dependencies, second loop: a route target that is
\* a node and does not list the conditional node in depends_on.
UnlistedPairs(ns) ==
    {<<c, t>> \in ConditionalNames(ns) \X NamesOf(ns) :
        /\ t \in Range(RouteMap(ns, c))
        /\ t \notin Sentinels
        /\ c \notin NodeByName(ns, t).depends_on}

\* _normalize_route_map
\* _normalize_route_map keeping a target that names no node
UnknownTargetsAccepted(ns, rm) == {}

UnknownTargets(ns, rm) == {t \in Range(rm) : t \notin Sentinels /\ t \notin NamesOf(ns)}
NormalizeRouteMap(rm) == [l \in DOMAIN rm |-> IF rm[l] \in Sentinels THEN END ELSE rm[l]]

\* _build_graph that skips a conditional node without route_map instead
\* of raising
BuildGraphErrorEmptyAllowed(ns, ord) ==
    IF ConditionalNames(ns) = {} THEN "none"
    ELSE IF OrphanedPairs(ns) # {} THEN "OrphanedConditionalDependency"
    ELSE IF UnlistedPairs(ns) # {} THEN "UnlistedRouteTarget"
    ELSE LET bad == SelectSeq(ord, LAMBDA nm :
                        /\ IsConditional(ns, nm)
                        /\ UnknownTargets(ns, RouteMap(ns, nm)) # {})
         IN  IF bad = <<>> THEN "none" ELSE "UnknownRouteTarget"

\* _validate_conditional_dependencies with its two loops in the other order
BuildGraphErrorTargetsFirst(ns, ord) ==
    IF ConditionalNames(ns) = {} THEN "none"
    ELSE IF UnlistedPairs(ns) # {} THEN "UnlistedRouteTarget"
    ELSE IF OrphanedPairs(ns) # {} THEN "OrphanedConditionalDependency"
    ELSE LET bad == SelectSeq(ord, LAMBDA nm :
                        /\ IsConditional(ns, nm)
                        /\ \/ DOMAIN RouteMap(ns, nm) = {}
                           \/ UnknownTargets(ns, RouteMap(ns, nm)) # {})
         IN  IF bad = <<>> THEN "none"
             ELSE IF DOMAIN RouteMap(ns, bad[1]) = {} THEN "EmptyRouteMap"
             ELSE "UnknownRouteTarget"

\* The error _build_graph raises, "none" when the graph compiles.
BuildGraphError(ns, ord) ==
    IF ConditionalNames(ns) = {} THEN "none"
    ELSE IF OrphanedPairs(ns) # {} THEN "OrphanedConditionalDependency"
    ELSE IF UnlistedPairs(ns) # {} THEN "UnlistedRouteTarget"
    ELSE LET bad == SelectSeq(ord, LAMBDA nm :
                        /\ IsConditional(ns, nm)
                        /\ \/ DOMAIN RouteMap(ns, nm) = {}
                           \/ UnknownTargets(ns, RouteMap(ns, nm)) # {})
         IN  IF bad = <<>> THEN "none"
             ELSE IF DOMAIN RouteMap(ns, bad[1]) = {} THEN "EmptyRouteMap"
             ELSE "UnknownRouteTarget"

\* graph.add_edge(START, node.name) for a node without dependencies
StartNodes(ns) == {nm \in NamesOf(ns) : NodeByName(ns, nm).depends_on = {}}

\* add_edge only for a node that declares a single dependency
PlainSuccessorsSingleDependency(ns, dep) ==
    IF IsConditional(ns, dep) THEN {}
    ELSE {nm \in NamesOf(ns) : NodeByName(ns, nm).depends_on = {dep}}

\* graph.add_edge(dep, node.name) for every dependency that is not a
\* conditional node: the nodes one plain node triggers when it completes.
PlainSuccessors(ns, dep) ==
    IF IsConditional(ns, dep) THEN {}
    ELSE {nm \in NamesOf(ns) : dep \in NodeByName(ns, nm).depends_on}

----------------------------------------------------------------------------
\* PipelineContext and _merge_contexts

PipelineContext(inp, art, meta) == [inputs |-> inp, artifacts |-> art, metadata |-> meta]
EmptyContext == PipelineContext(EmptyMap, EmptyMap, EmptyMap)
None == [none |-> TRUE]

\* {**right, **left}
MergeDictLeftBiased(left, right) ==
    [k \in DOMAIN left \cup DOMAIN right |-> IF k \in DOMAIN left THEN left[k] ELSE right[k]]

\* a merge that drops the keys both sides hold
MergeDictDisjoint(left, right) ==
    [k \in (DOMAIN left \cup DOMAIN right) \ (DOMAIN left \cap DOMAIN right) |->
        IF k \in DOMAIN right THEN right[k] ELSE left[k]]

\* a merge that drops a key on which the two sides disagree
MergeDictDropConflicts(left, right) ==
    [k \in {x \in DOMAIN left \cup DOMAIN right :
                x \in DOMAIN left \cap DOMAIN right => left[x] = right[x]} |->
        IF k \in DOMAIN right THEN right[k] ELSE left[k]]

\* {**left, **right}
MergeDict(left, right) ==
    [k \in DOMAIN left \cup DOMAIN right |-> IF k \in DOMAIN right THEN right[k] ELSE left[k]]

\* a merge that takes the inputs of the left Context only
MergeContextsLeftInputs(left, right) ==
    IF left = None /\ right = None THEN EmptyContext
    ELSE IF left = None THEN right
    ELSE IF right = None THEN left
    ELSE PipelineContext(left.inputs,
                         MergeDict(left.artifacts, right.artifacts),
                         MergeDict(left.metadata, right.metadata))

MergeContexts(left, right) ==
    IF left = None /\ right = None THEN EmptyContext
    ELSE IF left = None THEN right
    ELSE IF right = None THEN left
    ELSE PipelineContext(MergeDict(left.inputs, right.inputs),
                         MergeDict(left.artifacts, right.artifacts),
                         MergeDict(left.metadata, right.metadata))

\* set_artifact assigning a fresh dictionary that holds the one key
SetArtifactReplacing(ctx, key, value) ==
    [ctx EXCEPT !.artifacts = [k \in {key} |-> value]]

\* PipelineContext.set_artifact
SetArtifact(ctx, key, value) ==
    [ctx EXCEPT !.artifacts = MergeDict(ctx.artifacts, [k \in {key} |-> value])]

\* What a node's operation returns: the node operations of the repository
\* read the artifacts stored so far (the keys they find are recorded).
Result(nm, ctx) == [by |-> nm, read |-> DOMAIN ctx.artifacts]

----------------------------------------------------------------------------
\* The node lists a run is started with

Without(f, k) == [x \in DOMAIN f \ {k} |-> f[x]]
With(f, k, v) == [x \in DOMAIN f \cup {k} |-> IF x = k THEN v ELSE f[x]]
Min(S) == CHOOSE x \in S : \A y \in S : x <= y

\* the route_map that agrees with the dependencies d on conditional node c,
\* with or without an entry for the terminal sentinel
AgreedRouteMap(n, d, c, stop) ==
    LET targets == {j \in 1..n : NameOf[c] \in d[j]}
    IN  [l \in {LabelOf[j] : j \in targets} \cup (IF stop THEN {StopLabel} ELSE {}) |->
            IF l = StopLabel THEN "END"
            ELSE NameOf[CHOOSE j \in targets : LabelOf[j] = l]]

\* that route_map, and the ones one entry away from it: an entry dropped,
\* an entry added (for a node, for a name that is no node), an entry
\* pointed at another node, the sentinel spelled the other way
RouteMapVariants(n, rm) ==
    {rm}
    \cup {Without(rm, l) : l \in DOMAIN rm \ {StopLabel}}
    \cup {With(rm, LabelOf[j], NameOf[j]) : j \in {i \in 1..n : LabelOf[i] \notin DOMAIN rm}}
    \cup {With(rm, GhostLabel, "M")}
    \cup {With(rm, lj[1], NameOf[lj[2]]) :
            lj \in {x \in (DOMAIN rm \ {StopLabel}) \X (1..n) : rm[x[1]] # NameOf[x[2]]}}
    \cup {With(rm, StopLabel, "__end__") : x \in {l \in DOMAIN rm : l = StopLabel}}

\* plain nodes with unique names and any dependencies among themselves
\* (self-dependencies and cycles included)
PlainList(n, d) == [i \in 1..n |-> Node(NameOf[i], d[i])]

\* node i carries the name of node f[i]
NamedList(n, f, d) == [i \in 1..n |-> Node(NameOf[f[i]], d[i])]

\* conditional nodes cond, those in stops (all of them or none) with a
\* terminal entry; every route_map agrees with the dependencies except the
\* first one, which is v
ConditionalList(n, d, cond, stops, v) ==
    [i \in 1..n |->
        IF i \in cond
        THEN ConditionalNode(NameOf[i], d[i],
                 IF i = Min(cond) THEN v ELSE AgreedRouteMap(n, d, i, i \in stops))
        ELSE Node(NameOf[i], d[i])]

\* the Context a caller passes to arun (run_pipeline: inputs and
\* metadata["pipeline_type"], no artifact)
CallerContext ==
    PipelineContext([k \in {"query"} |-> "q"], EmptyMap, [k \in {"pipeline_type"} |-> "query"])

----------------------------------------------------------------------------
VARIABLES
    nodes,       \* Pipeline.nodes
    pc,          \* where the run is: Pending, Ordered, Built, Executing, Completed, Failed
    error,       \* the error the run raised, "none" so far
    errorNames,  \* the names the error message lists
    order,       \* order_names as returned by _resolve_order
    context,     \* the PipelineContext the caller passed to arun
    state,       \* GraphState["context"], the graph's channel value
    tasks,       \* the nodes of the current superstep: ready, running, done, failed
    routed,      \* for each conditional node done in this superstep, the target chosen
    invoked,     \* how many times each node's operation was invoked
    stored,      \* how many times artifacts[node.name] was written
    chosen,      \* every <<conditional node, target>> a route call selected
    hooks,       \* for each node, what _runner did for it, in order
    call,        \* the entry point called: "run" or "arun"
    loops,       \* how many event loops are running in the calling thread
    given,       \* the PipelineContext objects handed to _merge_contexts
    heap,        \* the PipelineContext objects that exist, by reference
    merge,       \* <<left, right, returned>> references of the _merge_contexts call
    run,         \* 1 in the first run of a node list, 2 in the second
    routes,      \* the label each route function returned for each Context
    first        \* execution_order and artifact keys returned by the first run

vars ==
    <<nodes, pc, error, errorNames, order, context, state, tasks, routed, invoked, stored,
      chosen, hooks, call, loops, given, heap, merge, run, routes, first>>

runVars ==
    <<nodes, pc, error, errorNames, order, context, state, tasks, routed, invoked, stored,
      chosen, hooks>>
entryVars == <<call, loops>>
mergeVars == <<given, heap, merge>>
replayVars == <<run, routes, first>>

\* Pipeline(nodes=[...]): the lists a run is started with.
\*  - plain nodes, unique names, any dependencies among themselves;
\*  - lists in which a name occurs twice, the last node possibly with a
\*    dependency on the first name or a missing dependency besides;
\*  - lists with dependencies that name no node;
\*  - lists with conditional nodes and dependencies on earlier nodes.
InitNodes ==
    \E n \in 1..MaxNodes :
        \/ \E d \in [1..n -> SUBSET NamesUpTo(n)] : nodes = PlainList(n, d)
        \/ \E f \in [1..n -> 1..n], d \in {{}, {NameOf[1]}, {"M"}} :
              /\ \E i, j \in 1..n : i # j /\ f[i] = f[j]
              /\ nodes = NamedList(n, f, [i \in 1..n |-> IF i = n THEN d ELSE {}])
        \/ \E d \in [1..n -> {{}, {NameOf[1]}}], g \in [1..n -> SUBSET GhostNames] :
              nodes = PlainList(n, [i \in 1..n |-> d[i] \cup g[i]])
        \/ \E d \in [1..n -> SUBSET NamesUpTo(n)] :
              /\ \A i \in 1..n : d[i] \subseteq NamesUpTo(i - 1)
              /\ \E cond \in SUBSET (1..n) \ {{}} :
                    \E stops \in {{}, cond} :
                      \E v \in RouteMapVariants(n, AgreedRouteMap(n, d, Min(cond), Min(cond) \in stops)) :
                        nodes = ConditionalList(n, d, cond, stops, v)

\* Pipeline(nodes) constructed and arun(context) called, nothing done yet
Constructed ==
    /\ pc = "Pending"
    /\ error = "none"
    /\ errorNames = <<>>
    /\ order = <<>>
    /\ context = CallerContext
    /\ state = None
    /\ tasks = EmptyMap
    /\ routed = EmptyMap
    /\ invoked = [nm \in NamesOf(nodes) |-> 0]
    /\ stored = [nm \in NamesOf(nodes) |-> 0]
    /\ chosen = {}
    /\ hooks = [nm \in NamesOf(nodes) |-> <<>>]
    /\ call = "arun"
    /\ loops = 1
    /\ given = <<>>
    /\ heap = <<>>
    /\ merge = <<>>
    /\ run = 1
    /\ routes = EmptyMap
    /\ first = None

Init == InitNodes /\ Constructed

\* an error that is recorded while the run carries on where it was
FailContinuing(kind, names) ==
    /\ pc' = pc
    /\ error' = kind
    /\ errorNames' = names

Fail(kind, names) ==
    /\ pc' = "Failed"
    /\ error' = kind
    /\ errorNames' = names

\* The class of the exception a failure reaches the caller as.  The errors
\* runner.py raises itself are PipelineError; a node's own exception is
\* re-raised as it is; the label _router returns is handed unchecked to the
\* graph runtime, whose lookup in the route map fails with a KeyError.
ExceptionClass(kind) ==
    IF kind \in {"DuplicateNode", "MissingDependency", "DependencyCycle",
                 "OrphanedConditionalDependency", "UnlistedRouteTarget",
                 "EmptyRouteMap", "UnknownRouteTarget", "ReentrantRunInvocation",
                 "UnsupportedPipelineType"}
    THEN "PipelineError"
    ELSE IF kind = "UnknownRouteLabel" THEN "KeyError"
    ELSE IF kind = "NameError" THEN "NameError"
    ELSE IF kind \in {"NodeExecutionFailure", "HookFailure"} THEN "Exception"
    ELSE "none"

\* arun writing no metadata["execution_order"]
ResolveOrderOnly ==
    /\ pc = "Pending"
    /\ LET r == ResolveOrder(nodes)
       IN  IF r.error # "none"
           THEN Fail(r.error, r.names) /\ UNCHANGED order
           ELSE pc' = "Ordered" /\ order' = r.order /\ UNCHANGED <<error, errorNames>>
    /\ UNCHANGED <<nodes, context, state, tasks, routed, invoked, stored, chosen, hooks>>
    /\ UNCHANGED <<entryVars, mergeVars, replayVars>>

\* arun: order = self._resolve_order();
\*       context.metadata["execution_order"] = [node.name for node in order]
Resolve ==
    /\ pc = "Pending"
    /\ \E r \in {ResolveOrder(nodes)} :
           IF r.error # "none"
           THEN /\ Fail(r.error, r.names)
                /\ UNCHANGED <<order, context>>
           ELSE /\ pc' = "Ordered"
                /\ order' = r.order
                /\ context' = [context EXCEPT !.metadata =
                                  MergeDict(@, [k \in {"execution_order"} |-> r.order])]
                /\ UNCHANGED <<error, errorNames>>
    /\ UNCHANGED <<nodes, state, tasks, routed, invoked, stored, chosen, hooks>>
    /\ UNCHANGED <<entryVars, mergeVars, replayVars>>

\* arun: graph = self._build_graph(order)
BuildGraph ==
    /\ pc = "Ordered"
    /\ LET e == BuildGraphError(nodes, order)
       IN  IF e # "none"
           THEN Fail(e, <<>>)
           ELSE pc' = "Built" /\ UNCHANGED <<error, errorNames>>
    /\ UNCHANGED <<nodes, order, context, state, tasks, routed, invoked, stored, chosen, hooks>>
    /\ UNCHANGED <<entryVars, mergeVars, replayVars>>

\* arun: graph.ainvoke({"context": context}).  The input is written to the
\* channel through its reducer, on the channel's initial PipelineContext();
\* the first superstep holds the nodes with an edge from START.
Invoke ==
    /\ pc = "Built"
    /\ pc' = "Executing"
    /\ state' = MergeContexts(EmptyContext, context)
    /\ tasks' = [nm \in StartNodes(nodes) |-> "ready"]
    /\ routed' = EmptyMap
    /\ UNCHANGED <<nodes, error, errorNames, order, context, invoked, stored, chosen, hooks>>
    /\ UNCHANGED <<entryVars, mergeVars, replayVars>>

\* What _runner does, in order: before the await, when the operation
\* returns, and when it raises.
RunnerStart == <<"log_start", "arun">>
RunnerOnReturn == <<"log_end", "set_artifact">>

\* _runner with node.log_end in a finally clause
RunnerOnRaiseThenEnd == <<"log_error", "log_end", "raise">>

RunnerOnRaise == <<"log_error", "raise">>

\* _wrap_node._runner up to the await: node.log_start(context), then the
\* operation is invoked
StartNode(nm) ==
    /\ pc = "Executing"
    /\ nm \in DOMAIN tasks
    /\ tasks[nm] = "ready"
    /\ tasks' = [tasks EXCEPT ![nm] = "running"]
    /\ invoked' = [invoked EXCEPT ![nm] = @ + 1]
    /\ hooks' = [hooks EXCEPT ![nm] = @ \o RunnerStart]
    /\ UNCHANGED <<nodes, pc, error, errorNames, order, context, state, routed, stored, chosen>>
    /\ UNCHANGED <<entryVars, mergeVars, replayVars>>

\* the operation returns: node.log_end, context.set_artifact(node.name,
\* result); for a conditional node the branch then calls node.route on the
\* context and looks the label up in the normalized route_map
FinishNode(nm) ==
    /\ pc = "Executing"
    /\ nm \in DOMAIN tasks
    /\ tasks[nm] = "running"
    /\ state' = SetArtifact(state, nm, Result(nm, state))
    /\ stored' = [stored EXCEPT ![nm] = @ + 1]
    /\ hooks' = [hooks EXCEPT ![nm] = @ \o RunnerOnReturn]
    /\ IF IsConditional(nodes, nm)
       THEN \E label \in Labels :
              LET rm == NormalizeRouteMap(RouteMap(nodes, nm))
              IN  IF label \in DOMAIN rm
                  THEN /\ routed' = With(routed, nm, rm[label])
                       /\ chosen' = chosen \cup {<<nm, rm[label]>>}
                       /\ tasks' = [tasks EXCEPT ![nm] = "done"]
                       /\ UNCHANGED <<pc, error, errorNames>>
                  ELSE /\ Fail("UnknownRouteLabel", <<nm>>)
                       /\ tasks' = [tasks EXCEPT ![nm] = "failed"]
                       /\ UNCHANGED <<routed, chosen>>
       ELSE /\ tasks' = [tasks EXCEPT ![nm] = "done"]
            /\ UNCHANGED <<pc, error, errorNames, routed, chosen>>
    /\ UNCHANGED <<nodes, order, context, invoked>>
    /\ UNCHANGED <<entryVars, mergeVars, replayVars>>

\* _runner without the raise: the error is logged and the context handed
\* back as if the operation had returned
FailNodeSwallowed(nm) ==
    /\ pc = "Executing"
    /\ nm \in DOMAIN tasks
    /\ tasks[nm] = "running"
    /\ tasks' = [tasks EXCEPT ![nm] = "done"]
    /\ hooks' = [hooks EXCEPT ![nm] = @ \o <<"log_error", "return">>]
    /\ UNCHANGED <<nodes, pc, error, errorNames, order, context, state, routed, invoked, stored,
                   chosen>>
    /\ UNCHANGED <<entryVars, mergeVars, replayVars>>

\* the operation raises: node.log_error(context, exc); raise
FailNode(nm) ==
    /\ pc = "Executing"
    /\ nm \in DOMAIN tasks
    /\ tasks[nm] = "running"
    /\ Fail("NodeExecutionFailure", <<nm>>)
    /\ tasks' = [tasks EXCEPT ![nm] = "failed"]
    /\ hooks' = [hooks EXCEPT ![nm] = @ \o RunnerOnRaise]
    /\ UNCHANGED <<nodes, order, context, state, routed, invoked, stored, chosen>>
    /\ UNCHANGED <<entryVars, mergeVars, replayVars>>

\* the nodes the edges leaving this superstep's nodes trigger
Triggered ==
    (UNION {PlainSuccessors(nodes, nm) : nm \in DOMAIN tasks})
    \cup ({routed[c] : c \in DOMAIN routed} \ {END})

SuperstepDone == \A nm \in DOMAIN tasks : tasks[nm] = "done"

\* end of a superstep with edges that fired: every returned context is
\* reduced into the channel and the triggered nodes form the next superstep
Advance ==
    /\ pc = "Executing"
    /\ SuperstepDone
    /\ Triggered # {}
    /\ state' = MergeContexts(state, state)
    /\ tasks' = [nm \in Triggered |-> "ready"]
    /\ routed' = EmptyMap
    /\ UNCHANGED <<nodes, pc, error, errorNames, order, context, invoked, stored, chosen, hooks>>
    /\ UNCHANGED <<entryVars, mergeVars, replayVars>>

\* ainvoke returning only once every node of the list has stored a result
CompleteWhenAllStored ==
    /\ pc = "Executing"
    /\ SuperstepDone
    /\ Triggered = {}
    /\ \A nm \in DOMAIN stored : stored[nm] > 0
    /\ pc' = "Completed"
    /\ state' = MergeContexts(state, state)
    /\ UNCHANGED <<nodes, error, errorNames, order, context, tasks, routed, invoked, stored, chosen, hooks>>
    /\ UNCHANGED <<entryVars, mergeVars, replayVars>>

\* end of a superstep in which no edge to a node fired: ainvoke returns
Complete ==
    /\ pc = "Executing"
    /\ SuperstepDone
    /\ Triggered = {}
    /\ pc' = "Completed"
    /\ state' = MergeContexts(state, state)
    /\ UNCHANGED <<nodes, error, errorNames, order, context, tasks, routed, invoked, stored, chosen, hooks>>
    /\ UNCHANGED <<entryVars, mergeVars, replayVars>>

Next ==
    \/ Resolve
    \/ BuildGraph
    \/ Invoke
    \/ \E nm \in NodeNames : StartNode(nm)
    \/ \E nm \in NodeNames : FinishNode(nm)
    \/ \E nm \in NodeNames : FailNode(nm)
    \/ Advance
    \/ Complete

Spec == Init /\ [][Next]_vars

----------------------------------------------------------------------------
\* The same node list run twice, with route functions that are functions
\* of the Context they receive

\* node.route called on the Context as it was when the node started
RouteCallBeforeStore(nm) == <<nm, state>>

\* what node.route(state["context"]) is called with: the node and the
\* Context after the node's result was stored
RouteCall(nm) == <<nm, SetArtifact(state, nm, Result(nm, state))>>

\* FinishNode with a route function that returns, for a Context it has
\* been called with before, the label it returned then
FinishNodeDeterministic(nm) ==
    /\ pc = "Executing"
    /\ nm \in DOMAIN tasks
    /\ tasks[nm] = "running"
    /\ state' = SetArtifact(state, nm, Result(nm, state))
    /\ stored' = [stored EXCEPT ![nm] = @ + 1]
    /\ hooks' = [hooks EXCEPT ![nm] = @ \o RunnerOnReturn]
    /\ IF IsConditional(nodes, nm)
       THEN \E label \in Labels :
              LET rm == NormalizeRouteMap(RouteMap(nodes, nm))
              IN  /\ RouteCall(nm) \in DOMAIN routes => label = routes[RouteCall(nm)]
                  /\ routes' = With(routes, RouteCall(nm), label)
                  /\ IF label \in DOMAIN rm
                     THEN /\ routed' = With(routed, nm, rm[label])
                          /\ chosen' = chosen \cup {<<nm, rm[label]>>}
                          /\ tasks' = [tasks EXCEPT ![nm] = "done"]
                          /\ UNCHANGED <<pc, error, errorNames>>
                     ELSE /\ Fail("UnknownRouteLabel", <<nm>>)
                          /\ tasks' = [tasks EXCEPT ![nm] = "failed"]
                          /\ UNCHANGED <<routed, chosen>>
       ELSE /\ tasks' = [tasks EXCEPT ![nm] = "done"]
            /\ UNCHANGED <<pc, error, errorNames, routed, chosen, routes>>
    /\ UNCHANGED <<nodes, order, context, invoked, run, first>>
    /\ UNCHANGED <<entryVars, mergeVars>>

\* arun has returned the final Context; the caller keeps its
\* execution_order and its artifact keys and runs the same Pipeline again
\* on a new Context with the same inputs
Rerun ==
    /\ pc = "Completed"
    /\ run = 1
    /\ run' = 2
    /\ first' = [order |-> state.metadata["execution_order"], keys |-> DOMAIN state.artifacts]
    /\ pc' = "Pending"
    /\ order' = <<>>
    /\ context' = CallerContext
    /\ state' = None
    /\ tasks' = EmptyMap
    /\ routed' = EmptyMap
    /\ invoked' = [nm \in NamesOf(nodes) |-> 0]
    /\ stored' = [nm \in NamesOf(nodes) |-> 0]
    /\ chosen' = {}
    /\ hooks' = [nm \in NamesOf(nodes) |-> <<>>]
    /\ UNCHANGED <<nodes, error, errorNames, routes>>
    /\ UNCHANGED <<entryVars, mergeVars>>

NextTwice ==
    \/ Resolve
    \/ BuildGraph
    \/ Invoke
    \/ \E nm \in NodeNames : StartNode(nm)
    \/ \E nm \in NodeNames : FinishNodeDeterministic(nm)
    \/ Advance
    \/ Complete
    \/ Rerun

SpecTwice == Init /\ [][NextTwice]_vars

----------------------------------------------------------------------------
\* Pipeline.run

\* Pipeline.run(context) called with no event loop running in the thread,
\* or from inside a running one
InitRun ==
    /\ InitNodes
    /\ pc = "Called"
    /\ call = "run"
    /\ loops \in {0, 1}
    /\ error = "none"
    /\ errorNames = <<>>
    /\ order = <<>>
    /\ context = CallerContext
    /\ state = None
    /\ tasks = EmptyMap
    /\ routed = EmptyMap
    /\ invoked = [nm \in NamesOf(nodes) |-> 0]
    /\ stored = [nm \in NamesOf(nodes) |-> 0]
    /\ chosen = {}
    /\ hooks = [nm \in NamesOf(nodes) |-> <<>>]
    /\ given = <<>>
    /\ heap = <<>>
    /\ merge = <<>>
    /\ run = 1
    /\ routes = EmptyMap
    /\ first = None

\* run without the asyncio.get_running_loop() test: asyncio.run whatever
\* loop is running
RunUnguarded ==
    /\ pc = "Called"
    /\ call = "run"
    /\ pc' = "Pending"
    /\ call' = "arun"
    /\ loops' = loops + 1
    /\ UNCHANGED <<nodes, error, errorNames, order, context, state, tasks, routed, invoked,
                   stored, chosen, hooks>>
    /\ UNCHANGED <<mergeVars, replayVars>>

\* Pipeline.run: asyncio.get_running_loop() finds a running loop and run
\* raises PipelineError; or it finds none and asyncio.run starts one, in
\* which arun runs
Run ==
    /\ pc = "Called"
    /\ call = "run"
    /\ IF loops > 0
       THEN /\ Fail("ReentrantRunInvocation", <<>>)
            /\ UNCHANGED <<call, loops>>
       ELSE /\ pc' = "Pending"
            /\ call' = "arun"
            /\ loops' = loops + 1
            /\ UNCHANGED <<error, errorNames>>
    /\ UNCHANGED <<nodes, order, context, state, tasks, routed, invoked, stored, chosen, hooks>>
    /\ UNCHANGED <<mergeVars, replayVars>>

NextRun ==
    \/ Run
    \/ Next

SpecRun == InitRun /\ [][NextRun]_vars

----------------------------------------------------------------------------
\* _merge_contexts on PipelineContext objects

\* Most keys the inputs of a Context handed to _merge_contexts hold.
MaxKeys == 2

KeyOf == <<"k1", "k2", "k3", "k4">>
ValueOf == {"v1", "v2"}
DictsUpTo(n) == UNION {[ks -> ValueOf] : ks \in SUBSET {KeyOf[i] : i \in 1..n}}

\* the reference that is None
NoRef == 0

\* _merge_contexts without its None cases: a missing side is merged as an
\* empty Context into a new object
MergeObjectsNoneAsEmpty(h, left, right) ==
    IF left # NoRef /\ left = right THEN [heap |-> h, ref |-> left]
    ELSE LET l == IF left = NoRef THEN EmptyContext ELSE h[left]
             r == IF right = NoRef THEN EmptyContext ELSE h[right]
         IN  [heap |-> Append(h, MergeContexts(l, r)), ref |-> Len(h) + 1]

\* _merge_contexts(left, right) on references into the heap h: the heap
\* after the call and the reference returned.  `left is right` compares
\* references; PipelineContext(...) and {**a, **b} make new objects.
MergeObjects(h, left, right) ==
    IF left = NoRef /\ right = NoRef
    THEN [heap |-> Append(h, EmptyContext), ref |-> Len(h) + 1]
    ELSE IF left = NoRef THEN [heap |-> h, ref |-> right]
    ELSE IF right = NoRef \/ left = right THEN [heap |-> h, ref |-> left]
    ELSE [heap |-> Append(h, MergeContexts(h[left], h[right])), ref |-> Len(h) + 1]

\* two PipelineContext objects L and R: any inputs of at most MaxKeys keys,
\* artifacts and metadata empty or of one key
InitMerge ==
    /\ \E li, ri \in DictsUpTo(MaxKeys), la, ra, lm, rm \in DictsUpTo(1) :
          given = <<PipelineContext(li, la, lm), PipelineContext(ri, ra, rm)>>
    /\ heap = given
    /\ merge = <<>>
    /\ nodes = <<>>
    /\ pc = "Merging"
    /\ error = "none"
    /\ errorNames = <<>>
    /\ order = <<>>
    /\ context = CallerContext
    /\ state = None
    /\ tasks = EmptyMap
    /\ routed = EmptyMap
    /\ invoked = EmptyMap
    /\ stored = EmptyMap
    /\ chosen = {}
    /\ hooks = EmptyMap
    /\ call = "_merge_contexts"
    /\ loops = 1
    /\ run = 1
    /\ routes = EmptyMap
    /\ first = None

\* one call _merge_contexts(left, right): on L and R, on L twice, on None
MergeCall ==
    /\ merge = <<>>
    /\ \E left \in {NoRef, 1}, right \in {NoRef, 1, 2} :
          LET r == MergeObjects(heap, left, right)
          IN  /\ heap' = r.heap
              /\ merge' = <<left, right, r.ref>>
    /\ UNCHANGED <<runVars, entryVars, replayVars, given>>

NextMerge == MergeCall

SpecMerge == InitMerge /\ [][NextMerge]_vars

----------------------------------------------------------------------------
\* Properties of a node list, stated on the list itself

UniqueNames(ns) == \A i, j \in DOMAIN ns : ns[i].name = ns[j].name => i = j
DeclaredDependencies(ns) == UNION {ns[i].depends_on : i \in DOMAIN ns}
AbsentDependencies(ns) == {dep \in DeclaredDependencies(ns) : \A i \in DOMAIN ns : ns[i].name # dep}

\* the names reachable from S along depends_on
RECURSIVE DependencyClosure(_, _)
DependencyClosure(ns, S) ==
    LET T == S \cup UNION {ns[i].depends_on : i \in {k \in DOMAIN ns : ns[k].name \in S}}
    IN  IF T = S THEN S ELSE DependencyClosure(ns, T)

OnCycle(ns, i) == ns[i].name \in DependencyClosure(ns, ns[i].depends_on)
HasCycle(ns) == \E i \in DOMAIN ns : OnCycle(ns, i)
Resolvable(ns) == UniqueNames(ns) /\ AbsentDependencies(ns) = {} /\ ~HasCycle(ns)

PositionsOf(nm, s) == {k \in DOMAIN s : s[k] = nm}
IsTopologicalOrder(ns, ord) ==
    /\ Len(ord) = Len(ns)
    /\ \A i \in DOMAIN ns :
          /\ Cardinality(PositionsOf(ns[i].name, ord)) = 1
          /\ \A dep \in ns[i].depends_on :
                \E j \in PositionsOf(dep, ord) : \A k \in PositionsOf(ns[i].name, ord) : j < k

NothingExecuted ==
    /\ \A nm \in DOMAIN invoked : invoked[nm] = 0 /\ stored[nm] = 0
    /\ context.artifacts = EmptyMap
    /\ state = None

----------------------------------------------------------------------------
\* C1: for a node list with unique names, no missing dependency and no
\* cycle, _resolve_order raises nothing and returns every node exactly once,
\* each strictly after every node named in its depends_on (order is read
\* once _resolve_order has returned, before the graph is invoked).
C1_ResolveOrderIsTopological ==
    (pc # "Pending" /\ state = None /\ Resolvable(nodes)) =>
        /\ error \notin {"DuplicateNode", "MissingDependency", "DependencyCycle"}
        /\ IsTopologicalOrder(nodes, order)

\* a resolved list of three nodes, one of them with two dependencies, whose
\* order is not the list order
C1_Witness ==
    /\ pc = "Ordered"
    /\ Len(nodes) = MaxNodes
    /\ \E i \in DOMAIN nodes : Cardinality(nodes[i].depends_on) > 1
    /\ order # [i \in DOMAIN nodes |-> nodes[i].name]

\* C6: a node list with unique names and no missing dependency that holds
\* a dependency cycle (a self-dependency included) fails with the
\* dependency-cycle error, no operation is invoked and no artifact exists.
C6_CycleFailsBeforeExecution ==
    (pc # "Pending" /\ UniqueNames(nodes) /\ AbsentDependencies(nodes) = {} /\ HasCycle(nodes)) =>
        /\ pc = "Failed"
        /\ error = "DependencyCycle"
        /\ NothingExecuted

\* a failed run over a list with a node outside the cycle and a node that
\* depends on itself
C6_Witness ==
    /\ pc = "Failed"
    /\ error = "DependencyCycle"
    /\ \E i \in DOMAIN nodes : nodes[i].name \in nodes[i].depends_on
    /\ \E i \in DOMAIN nodes : ~OnCycle(nodes, i)

\* C7: a node list in which two nodes share a name fails with the
\* duplicate-node error, whatever else is wrong with it; no order is
\* computed and nothing executes.
C7_DuplicateFailsFirst ==
    (pc # "Pending" /\ ~UniqueNames(nodes)) =>
        /\ pc = "Failed"
        /\ error = "DuplicateNode"
        /\ order = <<>>
        /\ errorNames = <<>>
        /\ "execution_order" \notin DOMAIN context.metadata
        /\ NothingExecuted

\* a failed run over a list whose first and last node share a name and
\* which also declares a missing dependency
C7_Witness ==
    /\ pc = "Failed"
    /\ error = "DuplicateNode"
    /\ Len(nodes) = MaxNodes
    /\ nodes[1].name = nodes[Len(nodes)].name
    /\ nodes[1].name # nodes[Len(nodes) - 1].name
    /\ AbsentDependencies(nodes) # {}

\* C8: a node list with unique names and a dependency that names no node
\* fails with the missing-dependency error, which lists exactly the absent
\* names: all of them, and none that is present.
C8_MissingNamesAllAbsent ==
    (pc # "Pending" /\ UniqueNames(nodes) /\ AbsentDependencies(nodes) # {}) =>
        /\ pc = "Failed"
        /\ error = "MissingDependency"
        /\ Range(errorNames) = AbsentDependencies(nodes)
        /\ NothingExecuted

\* a failed run whose error lists two missing names, declared by different
\* nodes, while other dependencies are present
C8_Witness ==
    /\ pc = "Failed"
    /\ error = "MissingDependency"
    /\ Len(errorNames) > 1
    /\ \E i \in DOMAIN nodes : Cardinality(nodes[i].depends_on \cap AbsentDependencies(nodes)) = 1
    /\ DeclaredDependencies(nodes) \cap NamesOf(nodes) # {}

\* a node that lists a conditional node in depends_on and is none of the
\* values of that node's route_map
HasOrphanedDependency(ns) ==
    \E i, j \in DOMAIN ns :
        /\ ns[j].conditional
        /\ ns[j].name \in ns[i].depends_on
        /\ \A l \in DOMAIN ns[j].route_map : ns[j].route_map[l] # ns[i].name

\* a conditional node's route_map names a node that does not list the
\* conditional node in depends_on
HasUnlistedTarget(ns) ==
    \E i, j \in DOMAIN ns :
        /\ ns[j].conditional
        /\ \E l \in DOMAIN ns[j].route_map : ns[j].route_map[l] = ns[i].name
        /\ ns[i].name \notin Sentinels
        /\ ns[j].name \notin ns[i].depends_on

\* C9: when a node lists a conditional node in depends_on without being a
\* target of its route_map, the run fails before any node executes, with
\* the orphaned-dependency error once _resolve_order has passed; and every
\* graph that runs has each dependent of a conditional node among that
\* node's route targets.
C9_OrphanedDependencyFails ==
    IF pc \in {"Pending", "Ordered"} THEN TRUE
    ELSE IF HasOrphanedDependency(nodes)
    THEN /\ pc = "Failed"
         /\ Resolvable(nodes) => error = "OrphanedConditionalDependency"
         /\ NothingExecuted
    ELSE TRUE

\* a failed run in which a node depends on two conditional nodes and only
\* the first of them does not list it
C9_Witness ==
    /\ pc = "Failed"
    /\ error = "OrphanedConditionalDependency"
    /\ \E i, j, k \in DOMAIN nodes :
          /\ j # k /\ nodes[j].conditional /\ nodes[k].conditional
          /\ {nodes[j].name, nodes[k].name} \subseteq nodes[i].depends_on
          /\ nodes[i].name \notin Range(nodes[j].route_map)
          /\ nodes[i].name \in Range(nodes[k].route_map)

\* C10: when a conditional node's route_map names a node that does not list
\* it in depends_on, the run fails before any node executes, with the
\* unlisted-route-target error once _resolve_order and the orphaned-
\* dependency check have passed; and in every graph that runs each route
\* target that is a node lists the conditional node in depends_on.
C10_UnlistedTargetFails ==
    IF pc \in {"Pending", "Ordered"} THEN TRUE
    ELSE IF HasUnlistedTarget(nodes)
    THEN /\ pc = "Failed"
         /\ (Resolvable(nodes) /\ ~HasOrphanedDependency(nodes)) => error = "UnlistedRouteTarget"
         /\ NothingExecuted
    ELSE TRUE

\* a failed run in which the unlisted target has another dependency
C10_Witness ==
    /\ pc = "Failed"
    /\ error = "UnlistedRouteTarget"
    /\ \E i, j \in DOMAIN nodes :
          /\ nodes[j].conditional
          /\ nodes[i].name \in Range(nodes[j].route_map)
          /\ nodes[j].name \notin nodes[i].depends_on
          /\ nodes[i].depends_on # {}

----------------------------------------------------------------------------
DependsOn(nm) == NodeByName(nodes, nm).depends_on

\* C2: in a run over a validated node set every node's operation is invoked
\* at most once and artifacts[node.name] is written at most once.
C2_EachNodeAtMostOnce ==
    \A nm \in DOMAIN invoked : invoked[nm] <= 1 /\ stored[nm] <= 1

\* C3: a node's operation starts only when every node named in its
\* depends_on has stored its artifact in the Context the node receives.
C3_StartsAfterDependencies ==
    [][\A nm \in DOMAIN invoked :
          invoked'[nm] > invoked[nm] => DependsOn(nm) \subseteq DOMAIN state.artifacts]_vars

\* C4: at the end of a run in which conditional node c ran once and its
\* route selected node x, no other node that lists c in depends_on was
\* invoked or has an artifact, and x was executed.
C4_UnchosenDependentsPruned ==
    pc = "Completed" =>
        \A cx \in chosen :
            (invoked[cx[1]] = 1 /\ cx[2] # END) =>
                /\ invoked[cx[2]] > 0
                /\ cx[2] \in DOMAIN state.artifacts
                /\ \A nm \in NamesOf(nodes) \ {cx[2]} :
                      cx[1] \in DependsOn(nm) =>
                          invoked[nm] = 0 /\ nm \notin DOMAIN state.artifacts

\* C5: at the end of a run in which conditional node r ran once and its
\* route selected the terminal sentinel, artifacts holds r and no node that
\* lists r in depends_on was invoked or has an artifact.
C5_TerminalRouteLeavesDependentsUnreached ==
    pc = "Completed" =>
        \A cx \in chosen :
            (invoked[cx[1]] = 1 /\ cx[2] = END) =>
                /\ error = "none"
                /\ cx[1] \in DOMAIN state.artifacts
                /\ \A nm \in NamesOf(nodes) :
                      cx[1] \in DependsOn(nm) =>
                          invoked[nm] = 0 /\ nm \notin DOMAIN state.artifacts

----------------------------------------------------------------------------
\* the errors raised by _resolve_order and _validate_conditional_dependencies
ValidationErrors ==
    {"DuplicateNode", "MissingDependency", "DependencyCycle",
     "OrphanedConditionalDependency", "UnlistedRouteTarget"}

\* C11: when a run fails with a validation error (duplicate name, missing
\* dependency, cycle, orphaned conditional dependency, unlisted route
\* target) no node was invoked and the Context passed to the run has the
\* inputs, artifacts and metadata it had before the call.
C11_ValidationLeavesContextUnchanged ==
    (pc = "Failed" /\ error \in ValidationErrors) =>
        /\ NothingExecuted
        /\ context = CallerContext

\* C12: when a conditional node's route function returns a label that is no
\* key of its route_map, the run fails at that node with a PipelineError,
\* the node routes nowhere and the run is not Completed.
C12_UnknownLabelRaisesPipelineError ==
    error = "UnknownRouteLabel" =>
        /\ pc = "Failed"
        /\ ExceptionClass(error) = "PipelineError"
        /\ \A k \in DOMAIN errorNames :
              /\ tasks[errorNames[k]] = "failed"
              /\ errorNames[k] \notin DOMAIN routed

\* the k-th execution recorded in a node's hooks (four steps each, the
\* last one possibly still at its await)
ExecutionOf(h, k) == SubSeq(h, 4 * k - 3, IF 4 * k <= Len(h) THEN 4 * k ELSE Len(h))
ExecutionsIn(h) == (Len(h) + 3) \div 4

OperationRaised == \E nm \in DOMAIN hooks : InSeq("log_error", hooks[nm])

ExecutionErrors == {"NodeExecutionFailure", "UnknownRouteLabel"}

\* C15: when a run fails at execution time, the Context the caller holds
\* after the failure (arun returns none) has exactly the artifacts of the
\* nodes that had stored one before the failure.
C15_ArtifactsIntactAfterFailure ==
    (pc = "Failed" /\ error \in ExecutionErrors) =>
        DOMAIN context.artifacts = {nm \in DOMAIN stored : stored[nm] > 0}

\* ctx.metadata["execution_order"] holds the resolved order, which names
\* every node of the list once
OrderRecordedIn(ctx) ==
    /\ "execution_order" \in DOMAIN ctx.metadata
    /\ ctx.metadata["execution_order"] = order
    /\ Len(order) = Len(nodes)
    /\ Range(order) = NamesOf(nodes)

\* C16: metadata["execution_order"] holds the full resolved order from the
\* moment the order is resolved, hence before any hook or operation runs,
\* and the Context the graph works on and returns holds that same list at
\* every point of the run, whatever routes were taken.
C16_ExecutionOrderRecorded ==
    /\ pc \in {"Ordered", "Built", "Executing", "Completed"} => OrderRecordedIn(context)
    /\ (\E nm \in DOMAIN hooks : hooks[nm] # <<>>) => OrderRecordedIn(context)
    /\ state # None => OrderRecordedIn(state)

\* a completed run in which a conditional node routed to the terminal
\* sentinel, a node was never invoked, and the returned Context lists it
C16_Witness ==
    /\ pc = "Completed"
    /\ \E cx \in chosen : cx[2] = END
    /\ \E nm \in DOMAIN invoked :
          /\ invoked[nm] = 0
          /\ InSeq(nm, state.metadata["execution_order"])
          /\ nm \notin DOMAIN state.artifacts

----------------------------------------------------------------------------
\* m holds exactly the keys of l and r, with r's value where r has the key
RightBiasedUnion(l, r, m) ==
    /\ DOMAIN m = DOMAIN l \cup DOMAIN r
    /\ \A k \in DOMAIN m : m[k] = IF k \in DOMAIN r THEN r[k] ELSE l[k]

\* C18: _merge_contexts(L, R) on two distinct Contexts returns a Context
\* whose inputs, artifacts and metadata are each the right-biased union of
\* those of L and R, and leaves L and R as they were.
C18_MergeIsRightBiasedUnion ==
    (merge # <<>> /\ merge[1] = 1 /\ merge[2] = 2) =>
        LET L == given[1]
            R == given[2]
            M == heap[merge[3]]
        IN  /\ RightBiasedUnion(L.inputs, R.inputs, M.inputs)
            /\ RightBiasedUnion(L.artifacts, R.artifacts, M.artifacts)
            /\ RightBiasedUnion(L.metadata, R.metadata, M.metadata)
            /\ heap[1] = L
            /\ heap[2] = R

\* a merge in which inputs collide on a key with different values, R's
\* inputs hold a key L's do not, and only L holds an artifact
C18_Witness ==
    /\ merge = <<1, 2, 3>>
    /\ \E k \in DOMAIN given[1].inputs \cap DOMAIN given[2].inputs :
          given[1].inputs[k] # given[2].inputs[k]
    /\ DOMAIN given[2].inputs \ DOMAIN given[1].inputs # {}
    /\ DOMAIN given[1].artifacts # {}
    /\ DOMAIN given[2].artifacts = {}

\* C19: _merge_contexts(L, L') where L' is L itself or an equal copy of it
\* returns a Context equal to L.
C19_SelfMergeIsNoOp ==
    (merge # <<>> /\ merge[1] # NoRef /\ merge[2] # NoRef /\ given[merge[1]] = given[merge[2]]) =>
        heap[merge[3]] = given[merge[1]]

\* the merge of a Context that holds inputs, an artifact and metadata with
\* an equal copy of it
C19_Witness ==
    /\ merge = <<1, 2, 3>>
    /\ given[1] = given[2]
    /\ Cardinality(DOMAIN given[1].inputs) = MaxKeys
    /\ DOMAIN given[1].artifacts # {}
    /\ DOMAIN given[1].metadata # {}

----------------------------------------------------------------------------
\* C20: Pipeline.run called while an event loop is running fails at once
\* with PipelineError: no order is resolved, nothing is written to the
\* Context, no hook or operation runs and no second event loop is started
\* (and run never starts a loop inside a running one).
C20_RunInsideLoopFails ==
    /\ loops <= 1
    /\ error = "ReentrantRunInvocation" => call = "run"
    /\ (call = "run" /\ pc # "Called") =>
          /\ pc = "Failed"
          /\ error = "ReentrantRunInvocation"
          /\ ExceptionClass(error) = "PipelineError"
          /\ loops = 1
          /\ order = <<>>
          /\ context = CallerContext
          /\ NothingExecuted
          /\ \A nm \in DOMAIN hooks : hooks[nm] = <<>>

\* run has failed inside a running loop on a list that _resolve_order
\* would have rejected
C20_Witness ==
    /\ pc = "Failed"
    /\ error = "ReentrantRunInvocation"
    /\ loops = 1
    /\ Len(nodes) = MaxNodes
    /\ ~UniqueNames(nodes)

----------------------------------------------------------------------------
\* C17: when the same node list is run twice with the same inputs, with
\* operations and route functions that are functions of the Context they
\* receive, the second run returns the execution_order and the artifact
\* keys the first run returned, whatever the schedules of the two runs.
C17_RerunYieldsSameOrderAndKeys ==
    (run = 2 /\ pc = "Completed") =>
        /\ state.metadata["execution_order"] = first.order
        /\ DOMAIN state.artifacts = first.keys

----------------------------------------------------------------------------
\* Sequential mode: the static order is walked one node at a time and a
\* conditional node's route is evaluated right after it; a node is skipped
\* when a conditional node it depends on has run and chosen another node.
\* Whether a node that depends on a skipped node is skipped as well is left
\* open: strict says it is.  pick[c] is the target the route function of
\* conditional node c returns.
RECURSIVE SequentialWalk(_, _, _, _, _, _)
SequentialWalk(ns, ord, pick, strict, k, executed) ==
    IF k > Len(ord) THEN executed
    ELSE LET nm == ord[k]
             deps == NodeByName(ns, nm).depends_on
             runs == /\ strict => deps \subseteq executed
                     /\ \A c \in deps :
                           (IsConditional(ns, c) /\ c \in executed) =>
                               (c \in DOMAIN pick /\ pick[c] = nm)
         IN  SequentialWalk(ns, ord, pick, strict, k + 1,
                            IF runs THEN executed \cup {nm} ELSE executed)

SequentialExecuted(ns, ord, pick, strict) == SequentialWalk(ns, ord, pick, strict, 1, {})

\* every conditional node that routed chose one target throughout the run
RoutesAreFunctions == \A cx, cy \in chosen : cx[1] = cy[1] => cx[2] = cy[2]
PickOf == [c \in {cx[1] : cx \in chosen} |-> (CHOOSE cx \in chosen : cx[1] = c)[2]]

\* C21: a completed graph-scheduled run in which every route function
\* returned one label has executed exactly the nodes sequential execution
\* of the same list with the same route functions executes (where both
\* readings of skipping agree on them), holds exactly their artifacts, and
\* records the same execution_order.
C21_GraphMatchesSequential ==
    LET sequential == SequentialExecuted(nodes, order, PickOf, TRUE)
    IN  (/\ pc = "Completed"
         /\ RoutesAreFunctions
         /\ sequential = SequentialExecuted(nodes, order, PickOf, FALSE)) =>
            /\ {nm \in DOMAIN invoked : invoked[nm] > 0} = sequential
            /\ DOMAIN state.artifacts = sequential
            /\ state.metadata["execution_order"] = order

\* Names of the nodes whose operation has returned in this run
CompletedNodes == {nm \in DOMAIN stored : stored[nm] > 0}

\* C22: at every moment of a run started with empty artifacts the keys of
\* the artifacts are exactly the names of the nodes whose operation has
\* returned, each key holds the result of the node of that name, and a step
\* changes the value of a key only when the node of that name stores again;
\* no key is ever removed.
C22_ArtifactKeysAreExecutedNodes ==
    /\ [](state # None =>
            /\ DOMAIN state.artifacts = CompletedNodes
            /\ \A nm \in DOMAIN state.artifacts : state.artifacts[nm].by = nm)
    /\ [][(state # None /\ state' # None) =>
            \A k \in DOMAIN state.artifacts :
                /\ k \in DOMAIN state'.artifacts
                /\ state'.artifacts[k] # state.artifacts[k] => stored'[k] = stored[k] + 1]_vars

\* a completed run in which two nodes have stored their results and a third
\* node has not executed
C22_Witness ==
    /\ pc = "Completed"
    /\ Cardinality(CompletedNodes) = 2
    /\ Cardinality(NamesOf(nodes)) = 3
    /\ DOMAIN state.artifacts = CompletedNodes

----------------------------------------------------------------------------
\* Runs in which every node operation returns

\* The steps of a run none of whose operations raises.  graph.ainvoke is
\* awaited to its end and the event loop resumes every task that can make
\* a step, so a step that stays possible is eventually taken.
NextSucceeding ==
    \/ Resolve
    \/ BuildGraph
    \/ Invoke
    \/ \E nm \in NodeNames : StartNode(nm)
    \/ \E nm \in NodeNames : FinishNode(nm)
    \/ Advance
    \/ Complete

AllPlain(ns) == \A i \in DOMAIN ns : ~ns[i].conditional

\* Lists of plain nodes in which every dependency names a node listed
\* earlier, or every dependency names a node listed later
InitSucceeding ==
    /\ \E n \in 1..MaxNodes : \E d \in [1..n -> SUBSET NamesUpTo(n)] :
          /\ \/ \A i \in 1..n : d[i] \subseteq NamesUpTo(i - 1)
             \/ \A i \in 1..n : d[i] \subseteq (NamesUpTo(n) \ NamesUpTo(i))
          /\ nodes = PlainList(n, d)
    /\ Constructed

SpecSucceeding == InitSucceeding /\ [][NextSucceeding]_vars /\ WF_vars(NextSucceeding)

\* C23: a run of a valid list of plain nodes whose operations all return
\* eventually completes with exactly one artifact key per declared node.
C23_PlainRunCompletesWithAllArtifacts ==
    (pc = "Pending" /\ AllPlain(nodes) /\ Resolvable(nodes))
        ~> (pc = "Completed" /\ DOMAIN state.artifacts = NamesOf(nodes))

\* the scenario [A, B depends_on [A], C depends_on [A]] completed with the
\* keys A, B and C
C23_Witness ==
    /\ nodes = <<Node("A", {}), Node("B", {"A"}), Node("C", {"A"})>>
    /\ pc = "Completed"
    /\ DOMAIN state.artifacts = {"A", "B", "C"}

----------------------------------------------------------------------------
\* Runs in which two siblings and a node that depends on both can share a
\* common dependency: lists one node longer than MaxNodes

\* Lists of plain nodes in which every dependency names a node listed
\* earlier
InitFanIn ==
    /\ \E n \in 1..(MaxNodes + 1) : \E d \in [1..n -> SUBSET NamesUpTo(n)] :
          /\ \A i \in 1..n : d[i] \subseteq NamesUpTo(i - 1)
          /\ nodes = PlainList(n, d)
    /\ Constructed

NextFanIn ==
    \/ Resolve
    \/ BuildGraph
    \/ Invoke
    \/ \E nm \in NamesUpTo(MaxNodes + 1) : StartNode(nm)
    \/ \E nm \in NamesUpTo(MaxNodes + 1) : FinishNode(nm)
    \/ \E nm \in NamesUpTo(MaxNodes + 1) : FailNode(nm)
    \/ Advance
    \/ Complete

SpecFanIn == InitFanIn /\ [][NextFanIn]_vars

\* neither node depends on the other, directly or through other nodes
Independent(a, b) ==
    /\ a # b
    /\ a \notin DependencyClosure(nodes, DependsOn(b))
    /\ b \notin DependencyClosure(nodes, DependsOn(a))

\* C24: when a node starts while two mutually independent nodes it depends
\* on are scheduled together in the running superstep, the Context it
\* starts with holds the artifacts of both, whichever of the two ran first;
\* and a completed run holds the artifact of every node whose operation
\* returned.
C24_JoinSeesBothSiblings ==
    /\ [](pc = "Completed" => CompletedNodes \subseteq DOMAIN state.artifacts)
    /\ [][\A c \in DOMAIN invoked :
            invoked'[c] > invoked[c] =>
                \A a, b \in DependsOn(c) \cap DOMAIN tasks :
                    Independent(a, b) => {a, b} \subseteq DOMAIN state.artifacts]_vars

----------------------------------------------------------------------------
\* Node lists that break several validation rules at once

\* A conditional first node whose route_map lists the terminal sentinel
\* and every other node, the other nodes depending on it; then, each at
\* one node of the list or nowhere (0): dup gives the node the name of its
\* neighbour, mis adds a dependency that names no node, cyc makes the node
\* depend on itself, orp drops the node from the route_map, unl drops the
\* node's dependency on the conditional node.
ListWithDefects(n, dup, mis, cyc, orp, unl) ==
    LET rm == [l \in {LabelOf[j] : j \in (2..n) \ {orp}} \cup {StopLabel} |->
                  IF l = StopLabel THEN "END"
                  ELSE NameOf[CHOOSE j \in 2..n : LabelOf[j] = l]]
        name(i) == IF dup = i THEN NameOf[(i % n) + 1] ELSE NameOf[i]
        deps(i) == (IF i >= 2 /\ unl # i THEN {NameOf[1]} ELSE {})
                   \cup (IF mis = i THEN {"M"} ELSE {})
                   \cup (IF cyc = i THEN {NameOf[i]} ELSE {})
    IN  [i \in 1..n |->
            IF i = 1 THEN ConditionalNode(name(i), deps(i), rm)
            ELSE Node(name(i), deps(i))]

InitValidation ==
    /\ \E n \in 1..MaxNodes : \E dup, mis, cyc, orp, unl \in 0..n :
          nodes = ListWithDefects(n, dup, mis, cyc, orp, unl)
    /\ Constructed

SpecValidation == InitValidation /\ [][Next]_vars

\* the first rule, in the order duplicate identity, missing dependency,
\* cycle, orphaned conditional dependency, unlisted route target, that the
\* list breaks
FirstViolatedRule(ns) ==
    IF ~UniqueNames(ns) THEN "DuplicateNode"
    ELSE IF AbsentDependencies(ns) # {} THEN "MissingDependency"
    ELSE IF HasCycle(ns) THEN "DependencyCycle"
    ELSE IF HasOrphanedDependency(ns) THEN "OrphanedConditionalDependency"
    ELSE IF HasUnlistedTarget(ns) THEN "UnlistedRouteTarget"
    ELSE "none"

\* C25: once validation is over, a list that breaks one or more of the
\* rules has failed with the error of the first rule it breaks, in the
\* order duplicate identity, missing dependency, cycle, orphaned
\* conditional dependency, unlisted route target; and a validation error
\* is only ever the error of that first rule.
C25_FirstViolatedRuleIsReported ==
    /\ (pc \notin {"Pending", "Ordered"} /\ FirstViolatedRule(nodes) # "none") =>
            (pc = "Failed" /\ error = FirstViolatedRule(nodes))
    /\ pc = "Ordered" =>
            FirstViolatedRule(nodes) \in {"none", "OrphanedConditionalDependency",
                                          "UnlistedRouteTarget"}
    /\ error \in ValidationErrors => error = FirstViolatedRule(nodes)

\* a list that has an orphaned dependency and an unlisted route target has
\* failed with the orphaned-dependency error, and one that has a cycle
\* besides with the cycle error
C25_Witness ==
    /\ pc = "Failed"
    /\ HasOrphanedDependency(nodes)
    /\ HasUnlistedTarget(nodes)
    /\ \/ error = "OrphanedConditionalDependency"
       \/ error = "DependencyCycle" /\ AbsentDependencies(nodes) = {} /\ UniqueNames(nodes)

----------------------------------------------------------------------------
\* The node list without the depends_on edges whose source is a
\* conditional node
StripConditionalEdges(ns) ==
    [i \in DOMAIN ns |->
        [ns[i] EXCEPT !.depends_on =
            {dep \in @ : ~\E j \in DOMAIN ns : ns[j].name = dep /\ ns[j].conditional}]]

OrderResolved == pc # "Pending" /\ error \notin {"DuplicateNode", "MissingDependency", "DependencyCycle"}

\* C26 as stated: the recorded order is the Kahn order of the graph with
\* the edges whose source is a conditional node removed.
C26_OrderIgnoresConditionalEdges ==
    OrderResolved => order = OrderNames(StripConditionalEdges(nodes))

\* C26: the static order counts every depends_on edge, those whose source
\* is a conditional node included: a dependency on a conditional node
\* counts in the dependent's in-degree, so every node that depends on a
\* conditional node is placed after it in the recorded order.
C26_OrderCountsConditionalEdges ==
    OrderResolved =>
        \A i, j \in DOMAIN nodes :
            (nodes[j].conditional /\ nodes[j].name \in nodes[i].depends_on) =>
                \A p \in PositionsOf(nodes[i].name, order) :
                    \E q \in PositionsOf(nodes[j].name, order) : q < p

\* a resolved list with a conditional node whose dependent is not where
\* the order without conditional edges puts it
C26_Witness ==
    /\ pc = "Ordered"
    /\ \E i, j \in DOMAIN nodes : nodes[j].conditional /\ nodes[j].name \in nodes[i].depends_on
    /\ order # OrderNames(StripConditionalEdges(nodes))

----------------------------------------------------------------------------
\* A first-in-first-out queue hands its names out in the order they came
\* in.  A node comes in when the last of its dependencies is handed out
\* (at the start when it has none), after the nodes that came in earlier
\* and after the nodes listed before it that come in at the same moment.
Max(S) == CHOOSE x \in S : \A y \in S : y <= x
PositionIn(ord, nm) == CHOOSE p \in DOMAIN ord : ord[p] = nm
ListIndex(ns, nm) == CHOOSE i \in DOMAIN ns : ns[i].name = nm
EnqueuedAt(ns, ord, nm) ==
    Max({0} \cup {PositionIn(ord, dep) : dep \in NodeByName(ns, nm).depends_on})
QueuedBefore(ns, ord, x, y) ==
    \/ EnqueuedAt(ns, ord, x) < EnqueuedAt(ns, ord, y)
    \/ /\ EnqueuedAt(ns, ord, x) = EnqueuedAt(ns, ord, y)
       /\ ListIndex(ns, x) < ListIndex(ns, y)

\* C27: the order _resolve_order returns is the first-in-first-out Kahn
\* order of the node list: of two nodes the one that entered the queue
\* first comes first, ties going to the node listed first; for
\* [A, B depends_on [A], C depends_on [A]] it is [A, B, C].
C27_TiesBrokenFifoByListOrder ==
    pc = "Ordered" =>
        /\ \A p, q \in DOMAIN order :
              p < q => QueuedBefore(nodes, order, order[p], order[q])
        /\ nodes = <<Node("A", {}), Node("B", {"A"}), Node("C", {"A"})>> =>
              order = <<"A", "B", "C">>

\* a resolved list of three nodes in which two nodes entered the queue at
\* the same moment and a node listed later entered it earlier than a node
\* listed before it
C27_Witness ==
    /\ pc = "Ordered"
    /\ Len(order) = 3
    /\ order # [i \in DOMAIN nodes |-> nodes[i].name]
    /\ \E x, y \in NamesOf(nodes) :
          x # y /\ EnqueuedAt(nodes, order, x) = EnqueuedAt(nodes, order, y)

----------------------------------------------------------------------------
\* One run of a list with conditional nodes, the Contexts the route
\* functions are called with recorded

\* lists with conditional nodes and dependencies on earlier nodes
InitRoute ==
    /\ \E n \in 1..MaxNodes : \E d \in [1..n -> SUBSET NamesUpTo(n)] :
          /\ \A i \in 1..n : d[i] \subseteq NamesUpTo(i - 1)
          /\ \E cond \in SUBSET (1..n) \ {{}} :
                \E stops \in {{}, cond} :
                  \E v \in RouteMapVariants(n, AgreedRouteMap(n, d, Min(cond), Min(cond) \in stops)) :
                    nodes = ConditionalList(n, d, cond, stops, v)
    /\ Constructed

NextRoute ==
    \/ Resolve
    \/ BuildGraph
    \/ Invoke
    \/ \E nm \in NodeNames : StartNode(nm)
    \/ \E nm \in NodeNames : FinishNodeDeterministic(nm)
    \/ \E nm \in NodeNames : FailNode(nm)
    \/ Advance
    \/ Complete

SpecRoute == InitRoute /\ [][NextRoute]_vars

\* C28: every Context a conditional node's route function has been called
\* with holds that node's own result; a conditional node whose execution
\* is over has one selected successor, a value of its route_map that is a
\* node of the list or the terminal sentinel; and the selection of a node
\* changes only in a step in which that node stores a result (one
\* evaluation per execution).
C28_RouteAfterStoreSelectsOne ==
    /\ [](/\ \A rc \in DOMAIN routes :
                /\ rc[1] \in DOMAIN rc[2].artifacts
                /\ rc[2].artifacts[rc[1]].by = rc[1]
          /\ \A nm \in DOMAIN tasks :
                (IsConditional(nodes, nm) /\ tasks[nm] = "done") =>
                    /\ nm \in DOMAIN routed
                    /\ routed[nm] \in Range(NormalizeRouteMap(RouteMap(nodes, nm)))
                    /\ routed[nm] \in NamesOf(nodes) \cup {END}
                    /\ <<nm, routed[nm]>> \in chosen)
    /\ [][\A nm \in NamesOf(nodes) :
            \/ /\ nm \in DOMAIN routed' => (nm \in DOMAIN routed /\ routed'[nm] = routed[nm])
               /\ {cx \in chosen' : cx[1] = nm} \subseteq chosen
            \/ routed' = EmptyMap /\ chosen' \subseteq chosen
            \/ IsConditional(nodes, nm) /\ stored'[nm] = stored[nm] + 1]_vars

\* a conditional node has stored its result, its route function has been
\* called and has selected a node of the list
C28_Witness ==
    /\ pc = "Executing"
    /\ \E nm \in DOMAIN routed :
          /\ routed[nm] # END
          /\ tasks[nm] = "done"
          /\ \E rc \in DOMAIN routes : rc[1] = nm /\ rc[2] = state

----------------------------------------------------------------------------
\* _merge_contexts applied to three Contexts, grouped both ways

Restrict(f, S) == [k \in DOMAIN f \cap S |-> f[k]]

\* three PipelineContext objects A, B and C: any inputs of at most MaxKeys
\* keys; the artifacts hold the first of these keys and the metadata the
\* others, so that all three dictionaries overlap between the objects
InitAssociate ==
    /\ \E a, b, c \in DictsUpTo(MaxKeys) :
          given = [i \in 1..3 |->
                     LET d == <<a, b, c>>[i]
                     IN  PipelineContext(d, Restrict(d, {KeyOf[1]}),
                                         Restrict(d, DOMAIN d \ {KeyOf[1]}))]
    /\ heap = given
    /\ merge = <<>>
    /\ nodes = <<>>
    /\ pc = "Merging"
    /\ error = "none"
    /\ errorNames = <<>>
    /\ order = <<>>
    /\ context = CallerContext
    /\ state = None
    /\ tasks = EmptyMap
    /\ routed = EmptyMap
    /\ invoked = EmptyMap
    /\ stored = EmptyMap
    /\ chosen = {}
    /\ hooks = EmptyMap
    /\ call = "_merge_contexts"
    /\ loops = 1
    /\ run = 1
    /\ routes = EmptyMap
    /\ first = None

\* _merge_contexts(_merge_contexts(a, b), c) and
\* _merge_contexts(a, _merge_contexts(b, c)) on the three objects, on two
\* of them with one taken twice, and with None in one or two places
AssociateCall ==
    /\ merge = <<>>
    /\ \E refs \in {<<1, 2, 3>>, <<1, 1, 2>>, <<1, 2, 2>>, <<1, 2, 1>>,
                    <<NoRef, 1, 2>>, <<1, NoRef, 2>>, <<1, 2, NoRef>>,
                    <<NoRef, NoRef, 1>>, <<1, NoRef, NoRef>>} :
          LET ab == MergeObjects(heap, refs[1], refs[2])
              ab_c == MergeObjects(ab.heap, ab.ref, refs[3])
              bc == MergeObjects(ab_c.heap, refs[2], refs[3])
              a_bc == MergeObjects(bc.heap, refs[1], bc.ref)
          IN  /\ heap' = a_bc.heap
              /\ merge' = refs \o <<ab_c.ref, a_bc.ref>>
    /\ UNCHANGED <<runVars, entryVars, replayVars, given>>

NextAssociate == AssociateCall

SpecAssociate == InitAssociate /\ [][NextAssociate]_vars

\* C29: _merge_contexts(_merge_contexts(A, B), C) and
\* _merge_contexts(A, _merge_contexts(B, C)) are equal in inputs, artifacts
\* and metadata, and A, B and C are left as they were.
C29_MergeIsAssociative ==
    merge # <<>> =>
        /\ heap[merge[4]].inputs = heap[merge[5]].inputs
        /\ heap[merge[4]].artifacts = heap[merge[5]].artifacts
        /\ heap[merge[4]].metadata = heap[merge[5]].metadata
        /\ \A i \in 1..3 : heap[i] = given[i]

\* three distinct Contexts that all hold one key, A and B with the same
\* value and C with another, merged both ways
C29_Witness ==
    /\ merge # <<>>
    /\ SubSeq(merge, 1, 3) = <<1, 2, 3>>
    /\ \E k \in DOMAIN given[1].artifacts \cap DOMAIN given[2].artifacts \cap DOMAIN given[3].artifacts :
          /\ given[1].artifacts[k] = given[2].artifacts[k]
          /\ given[1].artifacts[k] # given[3].artifacts[k]
    /\ heap[merge[4]] = heap[merge[5]]
    /\ merge[4] # merge[5]

----------------------------------------------------------------------------
\* Runs of nodes whose log_start, log_end or log_error may raise.  The
\* hooks are methods of Node that a node class overrides; _runner calls
\* them outside any handler of its own.

\* node.log_start(context) raises: it is called before the try, so the
\* exception leaves _runner and the operation is not awaited
StartHookRaises(nm) ==
    /\ pc = "Executing"
    /\ nm \in DOMAIN tasks
    /\ tasks[nm] = "ready"
    /\ Fail("HookFailure", <<nm>>)
    /\ tasks' = [tasks EXCEPT ![nm] = "failed"]
    /\ hooks' = [hooks EXCEPT ![nm] = @ \o <<"log_start", "raise">>]
    /\ UNCHANGED <<nodes, order, context, state, routed, invoked, stored, chosen>>
    /\ UNCHANGED <<entryVars, mergeVars, replayVars>>

\* the operation has returned and node.log_end(context, result) raises: it
\* is called after the try, before context.set_artifact
EndHookRaises(nm) ==
    /\ pc = "Executing"
    /\ nm \in DOMAIN tasks
    /\ tasks[nm] = "running"
    /\ Fail("HookFailure", <<nm>>)
    /\ tasks' = [tasks EXCEPT ![nm] = "failed"]
    /\ hooks' = [hooks EXCEPT ![nm] = @ \o <<"log_end", "raise">>]
    /\ UNCHANGED <<nodes, order, context, state, routed, invoked, stored, chosen>>
    /\ UNCHANGED <<entryVars, mergeVars, replayVars>>

\* the operation has raised and node.log_error(context, exc) raises inside
\* the except block: its exception leaves _runner in place of the node's
ErrorHookRaises(nm) ==
    /\ pc = "Executing"
    /\ nm \in DOMAIN tasks
    /\ tasks[nm] = "running"
    /\ Fail("HookFailure", <<nm>>)
    /\ tasks' = [tasks EXCEPT ![nm] = "failed"]
    /\ hooks' = [hooks EXCEPT ![nm] = @ \o <<"log_error", "raise">>]
    /\ UNCHANGED <<nodes, order, context, state, routed, invoked, stored, chosen>>
    /\ UNCHANGED <<entryVars, mergeVars, replayVars>>

NextHooks ==
    \/ Next
    \/ \E nm \in NodeNames : StartHookRaises(nm)
    \/ \E nm \in NodeNames : EndHookRaises(nm)
    \/ \E nm \in NodeNames : ErrorHookRaises(nm)

SpecHooks == Init /\ [][NextHooks]_vars

Count(s, x) == Cardinality({k \in DOMAIN s : s[k] = x})

\* C30: whatever the hooks do, a run fails only for a reason that does not
\* involve them (validation, a node operation that raises, a route label
\* outside the route_map), every node whose start hook was called has had
\* its operation invoked, and every operation that reached its end hook
\* has stored its result.
C30_HooksNeverAffectControlFlow ==
    /\ pc = "Failed" =>
          error \in ValidationErrors \cup {"EmptyRouteMap", "UnknownRouteTarget",
                                           "NodeExecutionFailure", "UnknownRouteLabel"}
    /\ \A nm \in DOMAIN hooks :
          /\ Count(hooks[nm], "log_start") = invoked[nm]
          /\ Count(hooks[nm], "log_end") = stored[nm]

----------------------------------------------------------------------------
\* The phases of a run in the order arun goes through them: nothing done,
\* _resolve_order returned (names and dependencies validated, order
\* computed), _build_graph returned (conditional nodes validated, graph
\* compiled), graph.ainvoke running, and the two ends
PhaseRank ==
    [p \in {"Pending", "Ordered", "Built", "Executing", "Completed", "Failed"} |->
        CASE p = "Pending" -> 0
          [] p = "Ordered" -> 1
          [] p = "Built" -> 2
          [] p = "Executing" -> 3
          [] p = "Completed" -> 4
          [] p = "Failed" -> 5]

\* C31: a run only moves forward through its phases; it fails only from
\* validation, ordering or an executing step, with an error recorded exactly
\* when it has failed; once execution has begun the order is not computed
\* again; operations are invoked and artifacts stored only while executing;
\* and nothing at all happens after Completed or Failed.
C31_PhasesOnlyMoveForward ==
    /\ []((error # "none") <=> (pc = "Failed"))
    /\ [][/\ pc' # pc => PhaseRank[pc'] > PhaseRank[pc]
          /\ (pc' = "Failed" /\ pc # "Failed") => pc \in {"Pending", "Ordered", "Executing"}
          /\ pc' = "Completed" => pc \in {"Executing", "Completed"}
          /\ pc \in {"Executing", "Completed", "Failed"} => order' = order /\ context' = context
          /\ (invoked' # invoked \/ stored' # stored \/ hooks' # hooks) =>
                (pc = "Executing" /\ pc' \in {"Executing", "Failed"})
          /\ pc \in {"Completed", "Failed"} => vars' = vars]_vars

\* a run that went through every phase and failed in an executing step
\* after a node had stored its result
C31_Witness ==
    /\ pc = "Failed"
    /\ error = "NodeExecutionFailure"
    /\ \E nm \in DOMAIN stored : stored[nm] > 0
    /\ order # <<>>

----------------------------------------------------------------------------
\* node i lies on a cycle or depends, directly or through other nodes, on
\* a node that does
ReachesCycle(ns, i) ==
    \E j \in DOMAIN ns :
        /\ OnCycle(ns, j)
        /\ ns[j].name \in DependencyClosure(ns, {ns[i].name})

ListNames(ns) == [i \in DOMAIN ns |-> ns[i].name]

\* C32 as stated: the nodes the dependency-cycle error names are the nodes
\* the ordering loop did not emit, in node-list order, and every one of
\* them lies on a dependency cycle.
C32_NamedNodesAllOnCycle ==
    error = "DependencyCycle" =>
        /\ errorNames = SelectSeq(ListNames(nodes), LAMBDA nm : ~InSeq(nm, OrderNames(nodes)))
        /\ \A i \in DOMAIN nodes : InSeq(nodes[i].name, errorNames) => OnCycle(nodes, i)

\* C32: the nodes the dependency-cycle error names are, in node-list
\* order, exactly the nodes that lie on a dependency cycle or depend,
\* directly or through other nodes, on a node that does; at least one of
\* them lies on a cycle.
C32_NamedNodesReachCycle ==
    error = "DependencyCycle" =>
        /\ errorNames = SelectSeq(ListNames(nodes),
                                  LAMBDA nm : ReachesCycle(nodes, ListIndex(nodes, nm)))
        /\ \E i \in DOMAIN nodes : InSeq(nodes[i].name, errorNames) /\ OnCycle(nodes, i)

\* a cycle error that names a node on a cycle and a node that only depends
\* on one, over a list with a node that is not named
C32_Witness ==
    /\ error = "DependencyCycle"
    /\ \E i \in DOMAIN nodes : InSeq(nodes[i].name, errorNames) /\ ~OnCycle(nodes, i)
    /\ \E i \in DOMAIN nodes : ~InSeq(nodes[i].name, errorNames)

----------------------------------------------------------------------------
\* Runs whose operations and route functions all terminate, by returning
\* or by raising

\* Lists in which each node after the first depends on the first node, on
\* the node before it, on both or on neither: the first node conditional
\* with the route_map that agrees with these dependencies, with or without
\* a terminal entry; or every node plain, the last one possibly depending
\* on itself or on a name that is no node.
InitTerminating ==
    /\ \E n \in 1..MaxNodes : \E d \in [1..n -> SUBSET NamesUpTo(n)] :
          /\ d[1] = {}
          /\ \A i \in 2..n : d[i] \subseteq {NameOf[1], NameOf[i - 1]}
          /\ \/ \E stop \in BOOLEAN :
                  nodes = ConditionalList(n, d, {1}, IF stop THEN {1} ELSE {},
                                          AgreedRouteMap(n, d, 1, stop))
             \/ \E extra \in {{}, {NameOf[n]}, {"M"}} :
                  nodes = PlainList(n, [i \in 1..n |-> IF i = n THEN d[i] \cup extra ELSE d[i]])
    /\ Constructed

\* arun is awaited to its end: the event loop resumes every task that can
\* make a step, so a step that stays possible is eventually taken
SpecTerminating == InitTerminating /\ [][Next]_vars /\ WF_vars(Next)

\* C33: every run whose operations and route functions terminate
\* eventually reaches Completed or Failed, whatever the list: it does not
\* wait for a node that no edge will trigger any more.
C33_RunTerminates == <>(pc \in {"Completed", "Failed"})

\* a run that has completed although a dependent of its conditional node
\* was never invoked, the route having named the terminal sentinel
C33_Witness ==
    /\ pc = "Completed"
    /\ \E cx \in chosen : cx[2] = END
    /\ \E nm \in DOMAIN invoked : invoked[nm] = 0 /\ DependsOn(nm) # {}

----------------------------------------------------------------------------
\* C34: at every moment of a run the Context the caller passed and the
\* Context the graph works on and returns hold the inputs supplied at the
\* start; the caller's Context differs from what was passed only in
\* metadata["execution_order"], and the graph's Context from the caller's
\* only in artifacts keyed by node names.
C34_InputsNeverModified ==
    /\ context.inputs = CallerContext.inputs
    /\ context.artifacts = CallerContext.artifacts
    /\ Restrict(context.metadata, DOMAIN context.metadata \ {"execution_order"})
          = CallerContext.metadata
    /\ state # None =>
          /\ state.inputs = CallerContext.inputs
          /\ state.metadata = context.metadata
          /\ DOMAIN state.artifacts \subseteq NamesOf(nodes)

\* a completed run that has written the order and two artifacts and
\* returns the inputs it was given
C34_Witness ==
    /\ pc = "Completed"
    /\ state.inputs = CallerContext.inputs
    /\ DOMAIN state.inputs # {}
    /\ Cardinality(DOMAIN state.artifacts) >= 2
    /\ "execution_order" \in DOMAIN context.metadata

----------------------------------------------------------------------------
\* a conditional node's route_map holds a target that is neither a
\* terminal sentinel nor the name of a node
HasUnknownTarget(ns) ==
    \E i \in DOMAIN ns :
        /\ ns[i].conditional
        /\ \E l \in DOMAIN ns[i].route_map :
              /\ ns[i].route_map[l] \notin {"END", "__end__"}
              /\ \A j \in DOMAIN ns : ns[j].name # ns[i].route_map[l]

HasEmptyRouteMap(ns) == \E i \in DOMAIN ns : ns[i].conditional /\ DOMAIN ns[i].route_map = {}

\* C35: a list with a route target that is neither a terminal sentinel nor
\* a node never gets past graph construction: the run has failed with a
\* PipelineError, the unknown-target one when the list breaks no other
\* rule, and no operation was invoked and no artifact stored.
C35_UnknownTargetFailsConstruction ==
    (HasUnknownTarget(nodes) /\ pc \notin {"Pending", "Ordered"}) =>
        /\ pc = "Failed"
        /\ ExceptionClass(error) = "PipelineError"
        /\ NothingExecuted
        /\ (FirstViolatedRule(nodes) = "none" /\ ~HasEmptyRouteMap(nodes)) =>
              error = "UnknownRouteTarget"

\* a list that breaks no other rule and whose conditional node lists,
\* besides a node that depends on it, a target that is no node
C35_Witness ==
    /\ pc = "Failed"
    /\ error = "UnknownRouteTarget"
    /\ HasUnknownTarget(nodes)
    /\ \E i, j \in DOMAIN nodes : nodes[j].conditional /\ nodes[j].name \in nodes[i].depends_on

----------------------------------------------------------------------------
\* some node depends on a conditional node whose route_map is empty
EmptyRouteMapHasDependent(ns) ==
    \E i, j \in DOMAIN ns :
        /\ ns[j].conditional
        /\ DOMAIN ns[j].route_map = {}
        /\ ns[j].name \in ns[i].depends_on

\* C36: a list with a conditional node whose route_map is empty never
\* gets past graph construction: the run has failed with a PipelineError
\* and no operation was invoked; when names, dependencies and order are
\* valid the error is the orphaned-dependency one if some node depends on
\* that conditional node, and the no-route_map one if no node does and the
\* list breaks no other rule.
C36_EmptyRouteMapNeverExecuted ==
    (HasEmptyRouteMap(nodes) /\ pc \notin {"Pending", "Ordered"}) =>
        /\ pc = "Failed"
        /\ ExceptionClass(error) = "PipelineError"
        /\ NothingExecuted
        /\ Resolvable(nodes) =>
              IF EmptyRouteMapHasDependent(nodes)
              THEN error = "OrphanedConditionalDependency"
              ELSE (FirstViolatedRule(nodes) = "none" /\ ~HasUnknownTarget(nodes)) =>
                      error = "EmptyRouteMap"

\* a failed run over a list whose conditional node has no route_map and no
\* dependent, beside another node
C36_Witness ==
    /\ pc = "Failed"
    /\ error = "EmptyRouteMap"
    /\ HasEmptyRouteMap(nodes)
    /\ ~EmptyRouteMapHasDependent(nodes)
    /\ Len(nodes) > 1

----------------------------------------------------------------------------
\* run.py: the two pipelines of the program and run_pipeline

\* the node classes of src/pipeline/repository
FeatureExtractorNode == Node("feature_extractor", {})
SplitVideoNode == Node("split_video", {"feature_extractor"})
ScreenExtractorNode == Node("screen_extractor", {"split_video"})
FlowExtractorNode == Node("flow_extractor", {"split_video"})
InteractionExtractorNode == Node("interaction_extractor", {"split_video"})
ExportNode ==
    Node("export", {"screen_extractor", "flow_extractor", "interaction_extractor"})

\* the node classes of src/pipeline/query
ExportRouteMap == [label \in {"export"} |-> "query_export"]
QueryPlanNode == Node("query_plan", {})
SimilarFlowSearchNode ==
    ConditionalNode("similar_flow_search", {"query_plan"}, ExportRouteMap)
SimilarScreenSearchNode ==
    ConditionalNode("similar_screen_search", {"query_plan"}, ExportRouteMap)
\* declared like SimilarFlowSearchNode
SimilarFeatureSearchNode ==
    ConditionalNode("similar_feature_search", {"query_plan"}, ExportRouteMap)
SimilarInteractionSearchNode ==
    ConditionalNode("similar_interaction_search", {"query_plan"}, ExportRouteMap)

\* QueryExportNode waiting for three of the four searches
QueryExportNodeThreeSearches ==
    Node("query_export",
         {"similar_feature_search", "similar_flow_search", "similar_screen_search"})

QueryExportNode ==
    Node("query_export",
         {"similar_feature_search", "similar_flow_search", "similar_screen_search",
          "similar_interaction_search"})

\* the object a class name stands for once it is bound
ClassOf(cls) ==
    CASE cls = "FeatureExtractorNode" -> FeatureExtractorNode
      [] cls = "SplitVideoNode" -> SplitVideoNode
      [] cls = "ScreenExtractorNode" -> ScreenExtractorNode
      [] cls = "FlowExtractorNode" -> FlowExtractorNode
      [] cls = "InteractionExtractorNode" -> InteractionExtractorNode
      [] cls = "ExportNode" -> ExportNode
      [] cls = "QueryPlanNode" -> QueryPlanNode
      [] cls = "SimilarFeatureSearchNode" -> SimilarFeatureSearchNode
      [] cls = "SimilarFlowSearchNode" -> SimilarFlowSearchNode
      [] cls = "SimilarScreenSearchNode" -> SimilarScreenSearchNode
      [] cls = "SimilarInteractionSearchNode" -> SimilarInteractionSearchNode
      [] cls = "QueryExportNode" -> QueryExportNode

\* __all__ of src/pipeline/repository/__init__.py and of
\* src/pipeline/query/__init__.py: the names a star import binds
RepositoryAll ==
    {"FeatureExtractorNode", "FlowExtractorNode", "ScreenExtractorNode",
     "InteractionExtractorNode", "SplitVideoNode"}
QueryAll ==
    {"QueryPlan", "QueryPlanFilters", "QueryPlanNode", "QueryExportNode",
     "SimilarFeatureSearchNode", "SimilarFlowSearchNode", "SimilarScreenSearchNode",
     "SimilarInteractionSearchNode", "LoadRepositoryNode", "RetrieveEvidenceNode",
     "DecideDepthNode", "ExpandEvidenceNode", "ProjectResponseNode",
     "FinalGuardrailsNode"}

\* the names bound in run.py when its functions are called
RunGlobals ==
    {"argparse", "json", "logging", "Any", "src", "LOGGING_CONFIG",
     "PipelineContext", "PipelineError", "Pipeline"} \cup QueryAll \cup RepositoryAll

\* the classes build_repository_pipeline and build_query_pipeline
\* instantiate, in the order of the list display
build_repository_pipeline ==
    <<"FeatureExtractorNode", "SplitVideoNode", "ScreenExtractorNode",
      "FlowExtractorNode", "InteractionExtractorNode", "ExportNode">>
build_query_pipeline ==
    <<"QueryPlanNode", "SimilarFeatureSearchNode", "SimilarFlowSearchNode",
      "SimilarScreenSearchNode", "SimilarInteractionSearchNode", "QueryExportNode">>

PipelineTypes == {"repository", "query", "graph"}

\* _load_inputs, and the Context run_pipeline creates
LoadInputs(type) ==
    IF type = "query" THEN [k \in {"query", "temperature"} |-> "q"]
    ELSE IF type = "repository" THEN [k \in {"app_name", "video_path", "metadata"} |-> "r"]
    ELSE EmptyMap
RunPipelineContext(type) ==
    PipelineContext(LoadInputs(type), EmptyMap, [k \in {"pipeline_type"} |-> type])

pipeline_type == context.metadata["pipeline_type"]

\* run_pipeline(inputs, pipeline_type) called from main, no event loop
\* running, no Pipeline built yet
InitPipelines ==
    /\ nodes = <<>>
    /\ pc = "Selecting"
    /\ call = "run"
    /\ loops = 0
    /\ error = "none"
    /\ errorNames = <<>>
    /\ order = <<>>
    /\ \E type \in PipelineTypes : context = RunPipelineContext(type)
    /\ state = None
    /\ tasks = EmptyMap
    /\ routed = EmptyMap
    /\ invoked = EmptyMap
    /\ stored = EmptyMap
    /\ chosen = {}
    /\ hooks = EmptyMap
    /\ given = <<>>
    /\ heap = <<>>
    /\ merge = <<>>
    /\ run = 1
    /\ routes = EmptyMap
    /\ first = None

\* the list display of a build function: the class names are looked up
\* and called from left to right, and a name that is not bound raises
\* NameError
Unbound(classes) == SelectSeq(classes, LAMBDA cls : cls \notin RunGlobals)

\* _select_pipeline(pipeline_type): Pipeline(nodes=[...]) of the selected
\* build function, PipelineError for any other type
SelectPipeline ==
    /\ pc = "Selecting"
    /\ IF pipeline_type \notin {"repository", "query"}
       THEN /\ Fail("UnsupportedPipelineType", <<>>)
            /\ UNCHANGED <<nodes, invoked, stored, hooks>>
       ELSE LET classes == IF pipeline_type = "repository"
                           THEN build_repository_pipeline
                           ELSE build_query_pipeline
            IN  IF Unbound(classes) # <<>>
                THEN /\ Fail("NameError", <<Head(Unbound(classes))>>)
                     /\ UNCHANGED <<nodes, invoked, stored, hooks>>
                ELSE LET ns == [i \in DOMAIN classes |-> ClassOf(classes[i])]
                     IN  /\ nodes' = ns
                         /\ pc' = "Called"
                         /\ invoked' = [nm \in NamesOf(ns) |-> 0]
                         /\ stored' = [nm \in NamesOf(ns) |-> 0]
                         /\ hooks' = [nm \in NamesOf(ns) |-> <<>>]
                         /\ UNCHANGED <<error, errorNames>>
    /\ UNCHANGED <<order, context, state, tasks, routed, chosen>>
    /\ UNCHANGED <<entryVars, mergeVars, replayVars>>

\* route of the search nodes
Route(nm) == "export"

\* FinishNode with the label the node's own route function returns
FinishNodeRouted(nm) ==
    /\ pc = "Executing"
    /\ nm \in DOMAIN tasks
    /\ tasks[nm] = "running"
    /\ state' = SetArtifact(state, nm, Result(nm, state))
    /\ stored' = [stored EXCEPT ![nm] = @ + 1]
    /\ hooks' = [hooks EXCEPT ![nm] = @ \o RunnerOnReturn]
    /\ IF IsConditional(nodes, nm)
       THEN LET rm == NormalizeRouteMap(RouteMap(nodes, nm))
                label == Route(nm)
            IN  IF label \in DOMAIN rm
                THEN /\ routed' = With(routed, nm, rm[label])
                     /\ chosen' = chosen \cup {<<nm, rm[label]>>}
                     /\ tasks' = [tasks EXCEPT ![nm] = "done"]
                     /\ UNCHANGED <<pc, error, errorNames>>
                ELSE /\ Fail("UnknownRouteLabel", <<nm>>)
                     /\ tasks' = [tasks EXCEPT ![nm] = "failed"]
                     /\ UNCHANGED <<routed, chosen>>
       ELSE /\ tasks' = [tasks EXCEPT ![nm] = "done"]
            /\ UNCHANGED <<pc, error, errorNames, routed, chosen>>
    /\ UNCHANGED <<nodes, order, context, invoked>>
    /\ UNCHANGED <<entryVars, mergeVars, replayVars>>

NextPipelines ==
    \/ SelectPipeline
    \/ Run
    \/ Resolve
    \/ BuildGraph
    \/ Invoke
    \/ \E nm \in NamesOf(nodes) : StartNode(nm)
    \/ \E nm \in NamesOf(nodes) : FinishNodeRouted(nm)
    \/ \E nm \in NamesOf(nodes) : FailNode(nm)
    \/ Advance
    \/ Complete

SpecPipelines == InitPipelines /\ [][NextPipelines]_vars

\* the list a build function's display evaluates to when every name is bound
Instances(classes) == [i \in DOMAIN classes |-> ClassOf(classes[i])]

Extractors == {"screen_extractor", "flow_extractor", "interaction_extractor"}
Searches ==
    {"similar_feature_search", "similar_flow_search", "similar_screen_search",
     "similar_interaction_search"}

\* in the run of the list ns, the node last executes exactly once in a run
\* that has completed, at most once in any run, and never starts before
\* every node of before has stored its artifact; no validation fails and
\* the order resolved is ord
RunsOnceAfter(ns, ord, last, before) ==
    /\ pc # "Selecting" => nodes = ns
    /\ error \in {"none", "NodeExecutionFailure"}
    /\ pc \in {"Ordered", "Built", "Executing", "Completed"} => order = ord
    /\ pc \in {"Executing", "Completed", "Failed"} =>
          /\ invoked[last] <= 1
          /\ stored[last] <= invoked[last]
          /\ invoked[last] = 1 =>
                \A nm \in before : stored[nm] = 1 /\ nm \in DOMAIN state.artifacts
    /\ pc = "Completed" =>
          /\ \A nm \in NamesOf(ns) : invoked[nm] = 1 /\ stored[nm] = 1
          /\ DOMAIN state.artifacts = NamesOf(ns)

\* C37: run_pipeline with pipeline_type "repository" builds the list
\* feature_extractor, split_video, the three extractors, export; no
\* validation fails, the order resolved is the order of the list, export
\* starts only once all three extractors have stored and never twice, and
\* a run that completes has executed export exactly once.
C37_RepositoryPipelineRuns ==
    pipeline_type = "repository" =>
        RunsOnceAfter(Instances(build_repository_pipeline),
                      <<"feature_extractor", "split_video", "screen_extractor",
                        "flow_extractor", "interaction_extractor", "export">>,
                      "export", Extractors)

\* C38: run_pipeline with pipeline_type "query" builds the list query_plan,
\* the four searches, query_export; no validation fails, query_export
\* starts only once all four searches have stored and never twice, and a
\* run that completes has executed query_export exactly once, in whatever
\* order the four searches started and finished.
C38_QueryExportRunsOnce ==
    pipeline_type = "query" =>
        RunsOnceAfter(Instances(build_query_pipeline),
                      <<"query_plan", "similar_feature_search", "similar_flow_search",
                        "similar_screen_search", "similar_interaction_search",
                        "query_export">>,
                      "query_export", Searches)

\* a completed query run in which the search listed last was the first of
\* the four to store its result and the one listed first the last
C38_Witness ==
    /\ pipeline_type = "query"
    /\ pc = "Completed"
    /\ stored["query_export"] = 1
    /\ state.artifacts["similar_interaction_search"].read = {"query_plan"}
    /\ state.artifacts["similar_feature_search"].read =
          {"query_plan"} \cup (Searches \ {"similar_feature_search"})

----------------------------------------------------------------------------
\* C39: _merge_contexts(None, R) returns the object R and
\* _merge_contexts(L, None) the object L, neither of them modified and no
\* object created; _merge_contexts(None, None) returns a new Context whose
\* inputs, artifacts and metadata are empty.
C39_NoneIsIdentity ==
    merge # <<>> =>
        LET left == merge[1]
            right == merge[2]
            ref == merge[3]
        IN  /\ (left = NoRef /\ right # NoRef) => (ref = right /\ heap = given)
            /\ (right = NoRef /\ left # NoRef) => (ref = left /\ heap = given)
            /\ (left = NoRef /\ right = NoRef) =>
                  /\ ref \notin DOMAIN given
                  /\ heap = Append(given, heap[ref])
                  /\ heap[ref].inputs = EmptyMap
                  /\ heap[ref].artifacts = EmptyMap
                  /\ heap[ref].metadata = EmptyMap

\* _merge_contexts(None, R) has returned, R holding inputs, an artifact and
\* metadata
C39_Witness ==
    /\ merge = <<NoRef, 2, 2>>
    /\ given[2].inputs # EmptyMap
    /\ given[2].artifacts # EmptyMap
    /\ given[2].metadata # EmptyMap
    /\ heap = given

====
